---- MODULE Spec2Model ----
(***************************************************************************)
(* Publication engine and autopost scheduler of autocontent:               *)
(* PublicationService.publish_draft / publish_due, the publication-log and *)
(* draft repositories they write through, the idempotency store and the    *)
(* publishes-per-day quota.  One project; time is counted in seconds UTC.  *)
(***************************************************************************)
EXTENDS Integers, Sequences, FiniteSets, TLC

\* ---------------------------------------------------------------- bounds
MaxCalls == 2         \* calls of publish_draft / publish_due started in a run
publishes_per_day == 1 \* Settings.publishes_per_day as configured for the run

\* ------------------------------------------------------- program constants
PUBLISH_TTL == 86400                \* 24 * 60 * 60 seconds
SCHEDULE_WINDOW_MINUTES == 5
max_retries == 2
DaySeconds == 86400

NULL == -1

Drafts == {1, 2}                  \* PostDraft rows of the project
DraftIds == {0} \cup Drafts       \* ids a caller may pass; 0 names no row
Procs == {1, 2}                   \* concurrently running worker tasks / requests
ConcCalls == Cardinality(Procs)

DraftStatuses == {"new", "needs_approval", "ready", "rejected", "published", "failed"}
SetStatusInputs == {"needs_approval", "ready"}
SendOutcomes == {"ok", "TransientTelegramError", "ChannelForbiddenError", "RetryAfterError"}

\* wall-clock instants (UTC seconds) at which the environment lets things happen
\* 21:58, 22:00, 22:02 and 01:00 next day, 22:02 next day
Instants == {79080, 79200, 79320, 90000, 165720}

\* ------------------------------------------------------------ time zones
KnownZones == {"UTC", "Europe/Moscow"}

UtcOffset(tz) == IF tz = "Europe/Moscow" THEN 3 * 3600 ELSE 0

_safe_timezone(tz_name) == IF tz_name \in KnownZones THEN tz_name ELSE "UTC"

\* value.astimezone(tz): the local wall-clock reading of a UTC instant
_ensure_tz(value, tz) == value + UtcOffset(tz)

\* local wall-clock reading back to the UTC instant
astimezone_utc(local, tz) == local - UtcOffset(tz)

LocalDate(local) == local \div DaySeconds

\* time.fromisoformat("HH:MM") as seconds since midnight; NULL when it raises
SlotTime(slot) ==
    IF slot[1] \in 0..23 /\ slot[2] \in 0..59 THEN (slot[1] * 60 + slot[2]) * 60 ELSE NULL

SetMax(S) == CHOOSE x \in S : \A y \in S : y <= x

\* line 215 returning the earliest due slot instead of the latest
_resolve_due_slot_Earliest(now_local, slots) ==
    LET candidates ==
            { LocalDate(now_local) * DaySeconds + SlotTime(slots[i]) :
                i \in { j \in 1..Len(slots) :
                          /\ SlotTime(slots[j]) # NULL
                          /\ now_local >= LocalDate(now_local) * DaySeconds + SlotTime(slots[j])
                          /\ now_local - (LocalDate(now_local) * DaySeconds + SlotTime(slots[j]))
                                <= SCHEDULE_WINDOW_MINUTES * 60 } }
    IN IF candidates = {} THEN NULL ELSE CHOOSE x \in candidates : \A y \in candidates : x <= y

_resolve_due_slot(now_local, slots) ==
    LET candidates ==
            { LocalDate(now_local) * DaySeconds + SlotTime(slots[i]) :
                i \in { j \in 1..Len(slots) :
                          /\ SlotTime(slots[j]) # NULL
                          /\ now_local >= LocalDate(now_local) * DaySeconds + SlotTime(slots[j])
                          /\ now_local - (LocalDate(now_local) * DaySeconds + SlotTime(slots[j]))
                                <= SCHEDULE_WINDOW_MINUTES * 60 } }
    IN IF candidates = {} THEN NULL ELSE SetMax(candidates)

_today_utc(t) == t \div DaySeconds

\* --------------------------------------------------------------- schedules
NoSchedule == [enabled |-> FALSE, tz |-> "", slots |-> << >>, per_day_limit |-> 0, exists |-> FALSE]

SlotsMsk == << <<1, 0>>, <<4, 0>> >>

Schedule(en, lim) ==
    [enabled |-> en, tz |-> "Europe/Moscow", slots |-> SlotsMsk, per_day_limit |-> lim, exists |-> TRUE]

\* (schedule, ProjectSettings.safe_mode, channel binding) the project is set up with
Configs == { <<NoSchedule, FALSE, "connected">>, <<Schedule(FALSE, 1), FALSE, "connected">>,
             <<Schedule(TRUE, 1), FALSE, "connected">>, <<Schedule(TRUE, 2), FALSE, "connected">>,
             <<Schedule(TRUE, 1), TRUE, "connected">>, <<Schedule(TRUE, 1), FALSE, "none">>,
             <<Schedule(TRUE, 1), FALSE, "pending">> }

VARIABLES
    now,            \* wall clock, UTC seconds
    draftStatus,    \* PostDraft.status by draft id
    channel,        \* ChannelBinding.status, "none" when the project has no binding
    schedule,       \* the project's Schedule row
    safe_mode,      \* ProjectSettings.safe_mode
    logs,           \* publication_logs table, row id = index
    idem,           \* idempotency store: key publish:{draft_id} -> expires_at (0 = absent)
    quota,          \* Redis key quota:publishes:{project}: [value, expires_at]
    usage,          \* usage_counters.posts_published by UTC day
    sent,           \* messages the channel accepted, in order
    sendCalls,      \* number of send_post invocations per draft
    call,           \* per process: the call in progress
    returns,        \* outcomes of the finished calls, in order of completion
    due,            \* input and result of a stand-alone slot resolution
    sources,        \* sources table by source id: status, last_error, last_fetch_at
    failures,       \* per session: the consecutive_failures attribute of the loaded Source
    items,          \* source_items table, row id = index
    fcall,          \* per process: the fetch_and_save_source call in progress
    flast,          \* the fetch_and_save_source call that finished last
    fetches,        \* number of fetch_and_save_source calls started
    batch,          \* the fetch_all_sources run in progress and the run that finished last
    genlock,        \* lock store: key generate:{project} -> expires_at (0 = absent)
    enqueued,       \* generate-draft messages put on the task queue, in order
    facts,          \* SourceItem.facts_cache is set, by item id
    drafts,         \* post_drafts table, row id = index
    gquota,         \* Redis keys quota:{kind}:{project}: [value, expires_at]
    gusage,         \* usage_counters llm_calls and drafts_generated by UTC day
    gcall,          \* per process: the generate_draft call in progress
    greturns,       \* outcomes of the finished generate_draft calls, in order
    stores,         \* key-TTL stores by kind: key -> expires_at (0 = absent)
    render,         \* input and result of a stand-alone _render_post trimming
    rate,           \* Redis key rate:publish:{project}: [value, expires_at, gen]
    urows           \* usage_counters table, row id = index

\* the generation lock and the task queue the fetcher feeds
evars == <<genlock, enqueued>>

\* the state of the source fetcher
fvars == <<sources, failures, items, fcall, flast, fetches, batch, evars>>

\* the publish rate limiter's key and the usage counter rows
xvars == <<rate, urows>>

\* the state of the draft generator and of the key-TTL stores
gvars == <<facts, drafts, gquota, gusage, gcall, greturns, stores, render, xvars>>

\* the state of the publication engine
pvars == <<now, draftStatus, channel, schedule, safe_mode, logs, idem, quota, usage,
           sent, sendCalls, call, returns, due>>

vars == <<now, draftStatus, channel, schedule, safe_mode, logs, idem, quota, usage,
          sent, sendCalls, call, returns, due, fvars, gvars>>

\* pc, arguments and locals of a call; held/haslog/chan/st0 record what the call met
\* when it started (key held, a log stored for the draft, channel status, draft status,
\* the day's posts_published in u0); outs lists what send_post answered in the call and
\* sleeps the asyncio.sleep durations of the call in half seconds; a finished call
\* also records what it left (st1, haslog1, nlogs1, u1)
Idle == [pc |-> "idle", op |-> "", draft |-> NULL, attempt |-> 0, last_exc |-> "",
         at |-> NULL, slot |-> NULL, plog |-> NULL, after |-> "", sends |-> 0, sent_msg |-> NULL,
         held |-> FALSE, haslog |-> FALSE, chan |-> "", st0 |-> "", nlogs0 |-> 0,
         outs |-> <<>>, sleeps |-> <<>>, u0 |-> 0]

Days == 0..2

\* the quota backend PublicationService is built with: QuotaService over Redis, or
\* NoopQuotaService when none is passed (publication_service.py line 52)
QuotaInit(service) == [service |-> service, value |-> 0, expires_at |-> 0]

NoDue == [slots |-> << >>, now_local |-> NULL, out |-> NULL, done |-> FALSE]

\* source items drafts are generated for; 0 is an id no item has
GenItems == {1, 2, 3}
GenItemIds == {0} \cup GenItems
GProcs == {1, 2}
QuotaKinds == {"drafts", "publishes", "llm_calls"}
StoreKinds == {"lock", "idempotency", "cooldown"}

\* locals of a generate_draft call: cached tells whether the loaded item had facts,
\* admitted whether the drafts quota check was passed, events lists the llm_calls quota
\* checks passed ("check") and the backend calls made ("call"); llm0, dg0 and n0 are the
\* day's usage counters and the number of drafts the call met; lost tells that the
\* call's insert was rejected by the unique constraint, dup0 that the call met a draft
\* of the duplicate window with its draft hash or its content hash
GIdle == [pc |-> "idle", item |-> 0, template |-> "", cached |-> FALSE, admitted |-> FALSE,
          at |-> NULL, row |-> NULL, events |-> << >>, llm0 |-> 0, dg0 |-> 0, n0 |-> 0,
          lost |-> FALSE, dup0 |-> FALSE]
NoRender == [done |-> FALSE]
NoStores == [k \in StoreKinds |-> 0]
\* the rate key absent: value 0, no TTL; gen counts the times the key was created
NoRate == [value |-> 0, expires_at |-> 0, gen |-> 0]

\* sources of the project; 0 is an id no source has
Sources == {1, 2}
SourceIds == {0} \cup Sources
FProcs == {1, 2}

\* a row as create_source inserts it (status and fetch_interval_min by column default)
NewSource == [status |-> "pending", last_error |-> NULL, last_fetch_at |-> NULL,
              fetch_interval_min |-> 60]

\* locals of a fetch_and_save_source call; st0, cf0 and stored0 record what the call met
\* (status, the loaded consecutive_failures, whether every entry of the feed was stored)
\* queue, lock and max_items are the arguments task_queue (supplied or not), lock_store
\* ("store": a store shared with other calls, "none": not supplied) and max_items_per_run;
\* created lists the ids of the items the call created, run numbers the call
FIdle == [pc |-> "idle", source |-> NULL, result |-> "", feed |-> << >>, idx |-> 0, saved |-> 0,
          at |-> NULL, st0 |-> "", cf0 |-> NULL, lf0 |-> NULL,
          stored0 |-> FALSE, in_batch |-> FALSE,
          queue |-> FALSE, lock |-> "none", max_items |-> NULL, created |-> << >>, run |-> 0]

NoFetch == [kind |-> "none"]

\* no batch run in progress, none finished
NoBatch == [pc |-> "idle", queue |-> << >>, at |-> NULL, due0 |-> {}, fetched |-> {},
            passed |-> {}, runs |-> 0, last |-> [kind |-> "none"]]

\* the fetcher's tables and calls before anything has run
FetchStores ==
    /\ sources = [s \in Sources |-> NewSource]
    /\ failures = [p \in FProcs |-> [s \in Sources |-> NULL]]
    /\ items = << >>
    /\ fcall = [p \in FProcs |-> FIdle]
    /\ flast = NoFetch
    /\ fetches = 0
    /\ batch = NoBatch
    /\ genlock = 0
    /\ enqueued = << >>

\* the draft generator's tables, counters and calls before anything has run
GenStores ==
    /\ facts = [i \in GenItems |-> FALSE]
    /\ drafts = << >>
    /\ gquota = [service |-> "NoopQuotaService",
                 keys |-> [k \in QuotaKinds |-> [value |-> 0, expires_at |-> 0]]]
    /\ gusage = [d \in Days |-> [llm_calls |-> 0, drafts_generated |-> 0]]
    /\ gcall = [p \in GProcs |-> GIdle]
    /\ greturns = << >>
    /\ stores = NoStores
    /\ render = NoRender
    /\ rate = NoRate
    /\ urows = << >>

\* the stores, the calls and the results as they are before anything has run
InitStores ==
    /\ logs = << >>
    /\ idem = [d \in DraftIds |-> 0]
    /\ usage = [d \in Days |-> 0]
    /\ sent = << >>
    /\ sendCalls = [d \in Drafts |-> 0]
    /\ call = [p \in Procs |-> Idle]
    /\ returns = << >>
    /\ due = NoDue
    /\ FetchStores
    /\ GenStores

Init ==
    /\ now = 79080
    /\ draftStatus \in [Drafts -> {"new", "ready"}]
    /\ \E c \in Configs : schedule = c[1] /\ safe_mode = c[2] /\ channel = c[3]
    /\ quota = QuotaInit("QuotaService")
    /\ InitStores


\* ------------------------------------------------------------ repositories
LogIds == 1..Len(logs)

\* rows of SELECT ... WHERE draft_id = :d
LogsOfDraft(d) == { i \in LogIds : logs[i].draft_id = d }

\* rows of SELECT ... WHERE draft_id = :d AND scheduled_at = :s  (never matches a NULL column)
LogsOfDraftAndScheduled(d, s) ==
    { i \in LogIds : logs[i].draft_id = d /\ logs[i].scheduled_at # NULL /\ logs[i].scheduled_at = s }

\* scalar_one_or_none(): "none", "one" or "multiple" (raises MultipleResultsFound)
ScalarOneOrNone(rows) ==
    IF rows = {} THEN "none" ELSE IF Cardinality(rows) = 1 THEN "one" ELSE "multiple"

TheRow(rows) == CHOOSE i \in rows : TRUE

get_by_draft_id(d) == LogsOfDraft(d)

get_by_draft_and_scheduled(d, s) == LogsOfDraftAndScheduled(d, s)

count_by_project_scheduled_between(start_at, end_at) ==
    Cardinality({ i \in LogIds : /\ logs[i].scheduled_at # NULL
                                 /\ logs[i].scheduled_at >= start_at
                                 /\ logs[i].scheduled_at < end_at })

\* uq_publication_draft_scheduled (draft_id, scheduled_at) and the partial unique
\* index uq_publication_draft_unscheduled (draft_id) WHERE scheduled_at IS NULL
UniqueViolation(row) ==
    \E i \in LogIds : logs[i].draft_id = row.draft_id /\ logs[i].scheduled_at = row.scheduled_at

ReadyDrafts == { d \in Drafts : draftStatus[d] = "ready" }

\* the query without its status filter: the oldest draft whatever its status
get_next_ready_AnyStatus == CHOOSE d \in Drafts : \A e \in Drafts : d <= e

\* ORDER BY created_at ASC LIMIT 1; rows are created in id order
get_next_ready == IF ReadyDrafts = {} THEN NULL ELSE CHOOSE d \in ReadyDrafts : \A e \in ReadyDrafts : d <= e

NewLog(d, status, msg, code, published_at, scheduled_at) ==
    [draft_id |-> d, scheduled_at |-> scheduled_at, published_at |-> published_at,
     status |-> status, tg_message_id |-> msg, error_code |-> code]

\* -------------------------------------------------------------- key stores
\* IdempotencyStore.acquire(key, ttl): set-if-absent with expiry
IdemHeld(d) == idem[d] > now

IdemAcquire(d) == [idem EXCEPT ![d] = now + PUBLISH_TTL]

_ttl_to_end_of_day(t) == (_today_utc(t) + 1) * DaySeconds - t

\* value of the Redis counter after INCR, an expired key counting as absent
QuotaIncr == IF quota.expires_at # 0 /\ quota.expires_at <= now THEN 1 ELSE quota.value + 1

\* QuotaService._increment_with_limit: INCR, EXPIRE on the first hit
_increment_with_limit ==
    [quota EXCEPT !.value = QuotaIncr,
                  !.expires_at = IF QuotaIncr = 1 THEN now + _ttl_to_end_of_day(now) ELSE @]

\* the quota backend after ensure_can_publish; NoopQuotaService does nothing
ensure_can_publish ==
    IF quota.service = "QuotaService" THEN _increment_with_limit ELSE quota

\* ensure_can_publish raises QuotaExceededError
QuotaExceeded == quota.service = "QuotaService" /\ QuotaIncr > publishes_per_day

\* ------------------------------------------------------------ call records
Started == Len(returns) + Cardinality({ p \in Procs : call[p].pc # "idle" })

AllIdle == \A p \in Procs : call[p].pc = "idle"

\* the call of process p ends: it returns the log row `row` with id `log` ("log"),
\* returns None ("null") or raises `err` ("raise")
Finish(p, c, kind, err, log, row) ==
    /\ call' = [call EXCEPT ![p] = Idle]
    /\ returns' = Append(returns,
            [op |-> c.op, draft |-> c.draft, at |-> c.at, slot |-> c.slot,
             kind |-> kind, err |-> err, log |-> log,
             msg |-> IF log = NULL THEN NULL ELSE row.tg_message_id,
             status |-> IF log = NULL THEN "" ELSE row.status,
             sends |-> c.sends, sent_msg |-> c.sent_msg,
             held |-> c.held, haslog |-> c.haslog, chan |-> c.chan,
             haslog1 |-> \E k \in 1..Len(logs') : logs'[k].draft_id = c.draft,
             st0 |-> c.st0, st1 |-> IF c.draft \in Drafts THEN draftStatus'[c.draft] ELSE "",
             nlogs0 |-> c.nlogs0, nlogs1 |-> Len(logs'),
             attempt |-> c.attempt, last_exc |-> c.last_exc,
             outs |-> c.outs, sleeps |-> c.sleeps,
             u0 |-> c.u0, u1 |-> usage'[_today_utc(now)]])

Raise(p, c, err) == Finish(p, c, "raise", err, NULL, NULL)

\* ------------------------------------------------------------ publish_draft
\* lines 56-58 with the key left unset: every call takes the delivery path
PublishDraftAcquire_KeyNotStored(p, d) ==
    /\ call[p].pc = "idle"
    /\ call' = [call EXCEPT ![p] =
                    [Idle EXCEPT !.pc = "pd_load", !.op = "publish_draft", !.draft = d, !.at = now,
                                 !.held = IdemHeld(d), !.haslog = (LogsOfDraft(d) # {}),
                                 !.chan = channel, !.nlogs0 = Len(logs),
                                 !.st0 = IF d \in Drafts THEN draftStatus[d] ELSE ""]]
    /\ UNCHANGED <<gvars, fvars, due, now, draftStatus, channel, schedule, safe_mode, logs, idem, quota, usage,
                   sent, sendCalls, returns>>

\* lines 56-58: the call starts and tries the idempotency key publish:{draft_id}
PublishDraftAcquire(p, d) ==
    /\ call[p].pc = "idle"
    /\ LET c == [Idle EXCEPT !.op = "publish_draft", !.draft = d, !.at = now,
                              !.held = IdemHeld(d), !.haslog = (LogsOfDraft(d) # {}),
                              !.chan = channel, !.nlogs0 = Len(logs),
                              !.u0 = usage[_today_utc(now)],
                              !.st0 = IF d \in Drafts THEN draftStatus[d] ELSE ""]
       IN IF IdemHeld(d)
             THEN /\ call' = [call EXCEPT ![p] = [c EXCEPT !.pc = "pd_existing"]]
                  /\ UNCHANGED idem
             ELSE /\ call' = [call EXCEPT ![p] = [c EXCEPT !.pc = "pd_load"]]
                  /\ idem' = IdemAcquire(d)
    /\ UNCHANGED <<gvars, fvars, due, now, draftStatus, channel, schedule, safe_mode, logs, quota, usage,
                   sent, sendCalls, returns>>

\* lines 59-62 without the early return: a call that found the key held goes on
PublishDraftExisting_NoEarlyReturn(p) ==
    /\ call[p].pc = "pd_existing"
    /\ call' = [call EXCEPT ![p].pc = "pd_load"]
    /\ UNCHANGED <<gvars, fvars, due, now, draftStatus, channel, schedule, safe_mode, logs, idem, quota, usage,
                   sent, sendCalls, returns>>

\* lines 59-62: the key is held; answer from the stored log or signal "in progress"
PublishDraftExisting(p) ==
    /\ call[p].pc = "pd_existing"
    /\ UNCHANGED <<gvars, fvars, due, now, draftStatus, channel, schedule, safe_mode, logs, idem, quota, usage,
                   sent, sendCalls>>
    /\ LET rows == get_by_draft_id(call[p].draft)
           one == ScalarOneOrNone(rows)
       IN CASE one = "one" -> Finish(p, call[p], "log", "", TheRow(rows), logs[TheRow(rows)])
            [] one = "none" -> Raise(p, call[p], "PublicationError: Publish already in progress")
            [] OTHER -> Raise(p, call[p], "MultipleResultsFound")

\* lines 64-70 without the channel check of lines 68-70
PublishDraftLoad_NoChannelCheck(p) ==
    /\ call[p].pc = "pd_load"
    /\ UNCHANGED <<gvars, fvars, due, now, draftStatus, channel, schedule, safe_mode, logs, idem, quota, usage,
                   sent, sendCalls>>
    /\ IF call[p].draft \notin Drafts
          THEN Raise(p, call[p], "PublicationError: Draft not found")
          ELSE /\ call' = [call EXCEPT ![p].pc = "pd_quota"]
               /\ UNCHANGED returns

\* lines 64-70: load the draft and the project's channel binding
PublishDraftLoad(p) ==
    /\ call[p].pc = "pd_load"
    /\ UNCHANGED <<gvars, fvars, due, now, draftStatus, channel, schedule, safe_mode, logs, idem, quota, usage,
                   sent, sendCalls>>
    /\ CASE call[p].draft \notin Drafts -> Raise(p, call[p], "PublicationError: Draft not found")
         [] call[p].draft \in Drafts /\ channel # "connected" ->
                Raise(p, call[p], "PublicationError: Channel not connected")
         [] OTHER -> /\ call' = [call EXCEPT ![p].pc = "pd_quota"]
                     /\ UNCHANGED returns

\* lines 72-82: publishes-per-day quota; on rejection mark the draft failed and log it
PublishDraftQuota(p) ==
    /\ call[p].pc = "pd_quota"
    /\ quota' = ensure_can_publish
    /\ IF QuotaExceeded
          THEN /\ draftStatus' = [draftStatus EXCEPT ![call[p].draft] = "failed"]
               /\ call' = [call EXCEPT ![p].pc = "cl_check",
                                       ![p].after = "raise_quota",
                                       ![p].plog = NewLog(call[p].draft, "failed", NULL, "quota", NULL, NULL)]
          ELSE /\ call' = [call EXCEPT ![p].pc = "pd_send"]
               /\ UNCHANGED draftStatus
    /\ UNCHANGED <<gvars, fvars, due, now, channel, schedule, safe_mode, logs, idem, usage, sent, sendCalls, returns>>

\* lines 86-116: one pass of the delivery loop, the channel answering with `outcome`
PublishDraftSend(p, outcome) ==
    /\ call[p].pc = "pd_send"
    /\ UNCHANGED <<gvars, fvars, due, now, channel, schedule, safe_mode, logs, idem, quota, usage>>
    /\ sendCalls' = [sendCalls EXCEPT ![call[p].draft] = @ + 1]
    /\ LET d == call[p].draft
           c == [call[p] EXCEPT !.sends = @ + 1, !.outs = Append(@, outcome)]
       IN CASE outcome = "ok" ->
                 /\ sent' = Append(sent, [draft |-> d, msg |-> Len(sent) + 1,
                                           op |-> "publish_draft", slot |-> NULL, lease |-> idem[d]])
                 /\ call' = [call EXCEPT ![p] = [c EXCEPT !.pc = "cl_check", !.after = "return",
                              !.sent_msg = Len(sent) + 1,
                              !.plog = NewLog(d, "published", Len(sent) + 1, "", now, NULL)]]
                 /\ UNCHANGED <<draftStatus, returns>>
            [] outcome = "TransientTelegramError" ->
                 /\ IF c.attempt + 1 > max_retries
                       THEN /\ draftStatus' = [draftStatus EXCEPT ![d] = "failed"]
                            /\ call' = [call EXCEPT ![p] = [c EXCEPT !.pc = "cl_check",
                                         !.after = "return", !.attempt = @ + 1, !.last_exc = outcome,
                                         !.plog = NewLog(d, "failed", NULL, outcome, NULL, NULL)]]
                       ELSE /\ call' = [call EXCEPT ![p] = [c EXCEPT !.attempt = @ + 1,
                                         !.last_exc = outcome,
                                         !.sleeps = Append(@, c.attempt + 1)]]
                            /\ UNCHANGED draftStatus
                 /\ UNCHANGED <<sent, returns>>
            [] outcome \in {"ChannelForbiddenError", "ChannelNotFoundError"} ->
                 /\ draftStatus' = [draftStatus EXCEPT ![d] = "failed"]
                 /\ call' = [call EXCEPT ![p] = [c EXCEPT !.pc = "cl_check", !.after = "return",
                              !.plog = NewLog(d, "failed", NULL, outcome, NULL, NULL)]]
                 /\ UNCHANGED <<sent, returns>>
            [] OTHER ->
                 /\ UNCHANGED <<draftStatus, sent>>
                 /\ Raise(p, c, outcome)

\* -------------------------------------------------------------- publish_due
\* the slot, as a UTC instant, that is due at UTC instant t under schedule sch (NULL: none)
DueSlotUtc(sch, t) ==
    LET tz == _safe_timezone(sch.tz)
        scheduled_at == _resolve_due_slot(_ensure_tz(t, tz), sch.slots)
    IN IF scheduled_at = NULL THEN NULL ELSE astimezone_utc(scheduled_at, tz)

\* lines 151-154 with the day taken in UTC instead of the schedule's zone
DayStartUtc_UtcDay(sch, t) == _today_utc(t) * DaySeconds

\* lines 151-154: the local calendar day of UTC instant t as a UTC range
DayStartUtc(sch, t) ==
    LET tz == _safe_timezone(sch.tz)
    IN astimezone_utc(LocalDate(_ensure_tz(t, tz)) * DaySeconds, tz)

DayEndUtc(sch, t) ==
    LET tz == _safe_timezone(sch.tz)
    IN astimezone_utc(LocalDate(_ensure_tz(t, tz)) * DaySeconds + DaySeconds, tz)

\* lines 127-144: the tick starts; schedule, due slot, channel and next ready draft
PublishDueSelect(p) ==
    /\ call[p].pc = "idle"
    /\ UNCHANGED <<gvars, fvars, due, now, draftStatus, channel, schedule, safe_mode, logs, idem, quota, usage,
                   sent, sendCalls>>
    /\ LET c == [Idle EXCEPT !.op = "publish_due", !.at = now, !.chan = channel,
                              !.nlogs0 = Len(logs), !.u0 = usage[_today_utc(now)],
                              !.draft = IF get_next_ready = NULL THEN NULL ELSE get_next_ready,
                              !.st0 = IF get_next_ready = NULL THEN ""
                                      ELSE draftStatus[get_next_ready]]
           scheduled_at_utc == DueSlotUtc(schedule, now)
       IN IF \/ ~schedule.exists
             \/ ~schedule.enabled
             \/ scheduled_at_utc = NULL
             \/ channel # "connected"
             \/ get_next_ready = NULL
             THEN Finish(p, c, "null", "", NULL, NULL)
             ELSE /\ call' = [call EXCEPT ![p] = [c EXCEPT !.pc = "due_check",
                                                    !.slot = scheduled_at_utc]]
                  /\ UNCHANGED returns

\* lines 146-161: existing log for (draft, slot), the per-day cap, the publish quota
PublishDueCheck(p) ==
    /\ call[p].pc = "due_check"
    /\ UNCHANGED <<gvars, fvars, due, now, draftStatus, channel, schedule, safe_mode, logs, idem, usage,
                   sent, sendCalls>>
    /\ LET rows == get_by_draft_and_scheduled(call[p].draft, call[p].slot)
           published_today == count_by_project_scheduled_between(
                                  DayStartUtc(schedule, call[p].at), DayEndUtc(schedule, call[p].at))
       IN CASE rows # {} ->
                 /\ IF ScalarOneOrNone(rows) = "one"
                       THEN Finish(p, call[p], "log", "", TheRow(rows), logs[TheRow(rows)])
                       ELSE Raise(p, call[p], "MultipleResultsFound")
                 /\ UNCHANGED quota
            [] rows = {} /\ published_today >= schedule.per_day_limit ->
                 /\ Finish(p, call[p], "null", "", NULL, NULL)
                 /\ UNCHANGED quota
            [] OTHER ->
                 /\ quota' = ensure_can_publish
                 /\ IF QuotaExceeded
                       THEN Raise(p, call[p], "QuotaExceededError")
                       ELSE /\ call' = [call EXCEPT ![p].pc = "due_send"]
                            /\ UNCHANGED returns

\* lines 163-172 handling a channel error as publish_draft does: the draft is failed
PublishDueSend_MarksFailed(p, outcome) ==
    /\ call[p].pc = "due_send"
    /\ UNCHANGED <<gvars, fvars, due, now, channel, schedule, safe_mode, logs, idem, quota, usage>>
    /\ sendCalls' = [sendCalls EXCEPT ![call[p].draft] = @ + 1]
    /\ LET d == call[p].draft
           c == [call[p] EXCEPT !.sends = @ + 1]
       IN IF outcome = "ok"
             THEN /\ sent' = Append(sent, [draft |-> d, msg |-> Len(sent) + 1,
                                            op |-> "publish_due", slot |-> c.slot, lease |-> NULL])
                  /\ call' = [call EXCEPT ![p] = [c EXCEPT !.pc = "cl_check", !.after = "return",
                               !.sent_msg = Len(sent) + 1,
                               !.plog = NewLog(d, "published", Len(sent) + 1, "", now, c.slot)]]
                  /\ UNCHANGED <<draftStatus, returns>>
             ELSE /\ draftStatus' = [draftStatus EXCEPT ![d] = "failed"]
                  /\ UNCHANGED sent
                  /\ Raise(p, c, outcome)

\* lines 163-172: the single delivery attempt of a tick; any channel error propagates
PublishDueSend(p, outcome) ==
    /\ call[p].pc = "due_send"
    /\ UNCHANGED <<gvars, fvars, due, now, draftStatus, channel, schedule, safe_mode, logs, idem, quota, usage>>
    /\ sendCalls' = [sendCalls EXCEPT ![call[p].draft] = @ + 1]
    /\ LET d == call[p].draft
           c == [call[p] EXCEPT !.sends = @ + 1]
       IN IF outcome = "ok"
             THEN /\ sent' = Append(sent, [draft |-> d, msg |-> Len(sent) + 1,
                                            op |-> "publish_due", slot |-> c.slot, lease |-> NULL])
                  /\ call' = [call EXCEPT ![p] = [c EXCEPT !.pc = "cl_check", !.after = "return",
                               !.sent_msg = Len(sent) + 1,
                               !.plog = NewLog(d, "published", Len(sent) + 1, "", now, c.slot)]]
                  /\ UNCHANGED returns
             ELSE /\ Raise(p, c, outcome)
                  /\ UNCHANGED sent

\* ------------------------------------------------------------- create_log
\* what follows the log write: on the delivery path the draft's published status and
\* the usage counter are committed, then the log is returned (or the quota error re-raised)
AfterLog(p, log, row) ==
    /\ IF call[p].plog.status = "published"
          THEN /\ draftStatus' = [draftStatus EXCEPT ![call[p].draft] = "published"]
               /\ usage' = [usage EXCEPT ![_today_utc(now)] = @ + 1]
          ELSE UNCHANGED <<draftStatus, usage>>
    /\ IF call[p].after = "raise_quota"
          THEN Raise(p, call[p], "QuotaExceededError")
          ELSE Finish(p, call[p], "log", "", log, row)

\* PublicationLogRepository.create_log lines 55-62: look for the existing row
CreateLogCheck(p) ==
    /\ call[p].pc = "cl_check"
    /\ UNCHANGED <<gvars, fvars, due, now, channel, schedule, safe_mode, logs, idem, quota, sent, sendCalls>>
    /\ LET row == call[p].plog
           rows == IF row.scheduled_at # NULL
                      THEN get_by_draft_and_scheduled(row.draft_id, row.scheduled_at)
                      ELSE get_by_draft_id(row.draft_id)
           one == ScalarOneOrNone(rows)
       IN CASE one = "one" -> AfterLog(p, TheRow(rows), logs[TheRow(rows)])
            [] one = "none" -> /\ call' = [call EXCEPT ![p].pc = "cl_insert"]
                               /\ UNCHANGED <<draftStatus, usage, returns>>
            [] OTHER -> /\ UNCHANGED <<draftStatus, usage>>
                        /\ Raise(p, call[p], "MultipleResultsFound")

\* PublicationLogRepository.create_log lines 64-76: insert and commit
CreateLogInsert(p) ==
    /\ call[p].pc = "cl_insert"
    /\ UNCHANGED <<gvars, fvars, due, now, channel, schedule, safe_mode, idem, quota, sent, sendCalls>>
    /\ IF UniqueViolation(call[p].plog)
          THEN /\ UNCHANGED <<logs, draftStatus, usage>>
               /\ Raise(p, call[p], "IntegrityError")
          ELSE /\ logs' = Append(logs, call[p].plog)
               /\ AfterLog(p, Len(logs) + 1, call[p].plog)

\* ------------------------------------------------------------- environment
NextInstant == { t \in Instants : t > now /\ \A u \in Instants : u > now => t <= u }

\* the wall clock moves on to the next instant
AdvanceClock ==
    /\ \E t \in NextInstant : now' = t
    /\ UNCHANGED <<gvars, fvars, due, draftStatus, channel, schedule, safe_mode, logs, idem, quota, usage,
                   sent, sendCalls, call, returns>>

\* the statuses the approval flow passes to set_status for a draft in status st:
\* a new draft is held for approval or released, a held draft is released
ApprovalMoves(st) ==
    IF st = "new" THEN {"needs_approval", "ready"}
    ELSE IF st = "needs_approval" THEN {"ready"}
    ELSE {}

\* DraftService.set_status as the approval flow calls it
set_status(d, status) ==
    /\ status \in ApprovalMoves(draftStatus[d])
    /\ draftStatus' = [draftStatus EXCEPT ![d] = status]
    /\ UNCHANGED <<gvars, fvars, due, now, channel, schedule, safe_mode, logs, idem, quota, usage,
                   sent, sendCalls, call, returns>>

\* DraftService.reject_draft, which the bot offers for a draft in any status
reject_draft(d) ==
    /\ draftStatus[d] # "rejected"
    /\ draftStatus' = [draftStatus EXCEPT ![d] = "rejected"]
    /\ UNCHANGED <<gvars, fvars, due, now, channel, schedule, safe_mode, logs, idem, quota, usage,
                   sent, sendCalls, call, returns>>

\* ChannelBindingRepository.update_status after a channel re-check
ChannelUpdateStatus(status) ==
    /\ channel \notin {"none", status}
    /\ channel' = status
    /\ UNCHANGED <<gvars, fvars, due, now, draftStatus, schedule, safe_mode, logs, idem, quota, usage,
                   sent, sendCalls, call, returns>>

\* the steps of a publish_draft call after it has started
StepDraft(p) ==
    \/ PublishDraftExisting(p)
    \/ PublishDraftLoad(p)
    \/ PublishDraftQuota(p)
    \/ \E o \in SendOutcomes : PublishDraftSend(p, o)

\* the steps of a publish_due call after it has started
StepDue(p) ==
    \/ PublishDueCheck(p)
    \/ \E o \in SendOutcomes : PublishDueSend(p, o)

\* the log write both operations end with
StepLog(p) ==
    \/ CreateLogCheck(p)
    \/ CreateLogInsert(p)

Step(p) == StepDraft(p) \/ StepDue(p) \/ StepLog(p)

\* Calls of publish_draft and publish_due run one after another (process 1 serves
\* them); between calls the clock moves on.
Next ==
    \/ AllIdle /\ Started < MaxCalls /\ \E d \in DraftIds : PublishDraftAcquire(1, d)
    \/ AllIdle /\ Started < MaxCalls /\ PublishDueSelect(1)
    \/ Step(1)
    \/ AllIdle /\ AdvanceClock

Spec == Init /\ [][Next]_vars

\* Manual publishing only: sequential publish_draft calls on a new draft, a ready
\* draft or a draft that does not exist, the clock and the channel re-check acting
\* between them.
InitDraft ==
    /\ now = 79080
    /\ draftStatus = [d \in Drafts |-> IF d = 1 THEN "new" ELSE "ready"]
    /\ schedule = NoSchedule
    /\ safe_mode = FALSE
    /\ channel \in {"none", "pending", "connected"}
    /\ quota = QuotaInit("QuotaService")
    /\ InitStores

NextDraft ==
    \/ AllIdle /\ Started < MaxCalls /\ \E d \in DraftIds : PublishDraftAcquire(1, d)
    \/ StepDraft(1)
    \/ StepLog(1)
    \/ AllIdle /\ AdvanceClock
    \/ AllIdle /\ \E s \in {"connected", "error"} : ChannelUpdateStatus(s)

SpecDraft == InitDraft /\ [][NextDraft]_vars

\* Autopost only: sequential scheduler ticks; between them the clock moves on and
\* drafts are rejected.
NextDue ==
    \/ AllIdle /\ Started < MaxCalls /\ PublishDueSelect(1)
    \/ StepDue(1)
    \/ StepLog(1)
    \/ AllIdle /\ AdvanceClock
    \/ AllIdle /\ \E d \in Drafts : reject_draft(d)

SpecDue == Init /\ [][NextDue]_vars

\* The draft life cycle: at a due slot of an enabled schedule with a connected channel,
\* sequential calls of both operations alternate with the approval flow.
InitStatus ==
    /\ now = 79200
    /\ draftStatus \in [Drafts -> {"new", "ready"}]
    /\ schedule = Schedule(TRUE, 1) /\ safe_mode = FALSE /\ channel = "connected"
    /\ quota = QuotaInit("QuotaService")
    /\ InitStores

NextStatus ==
    \/ AllIdle /\ Started < MaxCalls /\ \E d \in Drafts : PublishDraftAcquire(1, d)
    \/ AllIdle /\ Started < MaxCalls /\ PublishDueSelect(1)
    \/ Step(1)
    \/ AllIdle /\ \E d \in Drafts, st \in SetStatusInputs : set_status(d, st)
    \/ AllIdle /\ \E d \in Drafts : reject_draft(d)

SpecStatus == InitStatus /\ [][NextStatus]_vars

\* Two calls, one per process, started at any instant, interleave at their await points;
\* the service is built with either quota backend.
InitConc ==
    /\ now \in Instants
    /\ draftStatus \in [Drafts -> {"new", "ready"}]
    /\ \E c \in Configs : schedule = c[1] /\ safe_mode = c[2] /\ channel = c[3]
    /\ \E q \in {"QuotaService", "NoopQuotaService"} : quota = QuotaInit(q)
    /\ InitStores

NextConc ==
    \/ Started < ConcCalls /\ \E p \in Procs, d \in DraftIds : PublishDraftAcquire(p, d)
    \/ Started < ConcCalls /\ \E p \in Procs : PublishDueSelect(p)
    \/ \E p \in Procs : Step(p)

SpecConc == InitConc /\ [][NextConc]_vars

\* Slot resolution on its own: a slot list and a local time are drawn, then resolved.
MaxSlots == 2

SlotInputs == { <<10, 0>>, <<10, 3>>, <<14, 0>>, <<23, 58>>, <<24, 0>> }

SlotLists == UNION { [1..n -> SlotInputs] : n \in 0..MaxSlots }

\* 09:59:59, 10:00, 10:02, 10:04, 10:05, 10:05:01, 10:08:01, 14:06, 23:59 and 00:01 next day
LocalTimes == { DaySeconds + t : t \in {35999, 36000, 36120, 36240, 36300, 36301, 36481,
                                         50760, 86340, 86460} }

InitSlot ==
    /\ now = 79080
    /\ draftStatus = [d \in Drafts |-> "new"]
    /\ schedule = NoSchedule /\ safe_mode = FALSE /\ channel = "connected"
    /\ logs = << >>
    /\ idem = [d \in DraftIds |-> 0]
    /\ quota = QuotaInit("QuotaService")
    /\ usage = [d \in Days |-> 0]
    /\ sent = << >>
    /\ sendCalls = [d \in Drafts |-> 0]
    /\ call = [p \in Procs |-> Idle]
    /\ returns = << >>
    /\ FetchStores
    /\ GenStores
    /\ \E sl \in SlotLists, t \in LocalTimes :
          due = [slots |-> sl, now_local |-> t, out |-> NULL, done |-> FALSE]

ResolveSlot ==
    /\ ~due.done
    /\ due' = [due EXCEPT !.out = _resolve_due_slot(due.now_local, due.slots), !.done = TRUE]
    /\ UNCHANGED <<gvars, fvars, now, draftStatus, channel, schedule, safe_mode, logs, idem, quota,
                   usage, sent, sendCalls, call, returns>>

NextSlot == ResolveSlot

SpecSlot == InitSlot /\ [][NextSlot]_vars

\* ------------------------------------------------------------ source fetcher
MaxFetches == 4
MaxItemFetches == 3
MaxRuns == 2
MaxEnqueueFetches == 2
MaxFeed == 2
source_fail_threshold == 2
fetch_interval_min == 10
max_generate_per_fetch == 5
generate_lock_ttl == 60

\* feed entries as feedparser hands them over: id, link and title, "" when absent
FeedEntries == { [id |-> "a", link |-> "x", title |-> "t"],
                 [id |-> "a", link |-> "y", title |-> "t"],
                 [id |-> "",  link |-> "x", title |-> "t"] }

Feeds == UNION { [1..n -> FeedEntries] : n \in 0..MaxFeed }

\* what rss_client.fetch can raise: httpx.TimeoutException, httpx.HTTPStatusError, any other
FetchErrors == {"timeout", "HTTP 500", "boom"}

\* rss_fetcher.py lines 80-82: link, title and external_id of an entry
EntryLink(e) == e.link
EntryTitle(e) == IF e.title # "" THEN e.title ELSE "(no title)"
EntryExternalId(e) ==
    IF e.id # "" THEN e.id ELSE IF EntryLink(e) # "" THEN EntryLink(e) ELSE EntryTitle(e)

NewItem(sid, e) == [source_id |-> sid, external_id |-> EntryExternalId(e), link |-> EntryLink(e)]

ItemIds == 1..Len(items)

get_by_external_id(sid, x) ==
    { k \in ItemIds : items[k].source_id = sid /\ items[k].external_id = x }

get_by_link(sid, l) == { k \in ItemIds : items[k].source_id = sid /\ items[k].link = l }

\* uq_source_items_external and uq_source_items_link reject the row
ItemViolation(row) ==
    \E k \in ItemIds :
        /\ items[k].source_id = row.source_id
        /\ items[k].external_id = row.external_id \/ items[k].link = row.link

\* every entry of the feed collides with a stored item of the source
AllStored(sid, feed) ==
    \A k \in 1..Len(feed) :
        get_by_external_id(sid, EntryExternalId(feed[k])) # {}
            \/ get_by_link(sid, EntryLink(feed[k])) # {}

\* sources.py lines 44-61: status, last_error and last_fetch_at are written to the row;
\* consecutive_failures is no mapped column of Source (models.py lines 66-77), so line 58
\* sets a plain attribute on the instance loaded in this session
update_status_row(sid, status, last_error) ==
    [sources EXCEPT ![sid] = [@ EXCEPT !.status = status, !.last_error = last_error,
                                        !.last_fetch_at = now]]

update_status_attr(p, sid, consecutive_failures) ==
    IF consecutive_failures = NULL THEN failures
    ELSE [failures EXCEPT ![p][sid] = consecutive_failures]

FreshSession(p) == [failures EXCEPT ![p] = [s \in Sources |-> NULL]]

\* the fetch_and_save_source call of process p ends: it returns (source, saved)
\* ("return"), returns (None, 0) ("no_source") or lets `err` escape ("raise")
FDone(p, c, kind, err) ==
    /\ fcall' = [fcall EXCEPT ![p] = FIdle]
    /\ flast' = [kind |-> kind, err |-> err, source |-> c.source, result |-> c.result,
                 saved |-> c.saved,
                 at |-> c.at, st0 |-> c.st0, cf0 |-> c.cf0, lf0 |-> c.lf0,
                 stored0 |-> c.stored0, in_batch |-> c.in_batch,
                 queue |-> c.queue, lock |-> c.lock, max_items |-> c.max_items,
                 created |-> c.created, run |-> c.run, fin |-> now,
                 enq |-> Len(enqueued') - Len(enqueued),
                 st1 |-> IF c.source \in Sources THEN sources'[c.source].status ELSE "",
                 err1 |-> IF c.source \in Sources THEN sources'[c.source].last_error ELSE NULL,
                 cf1 |-> IF c.source \in Sources THEN failures'[p][c.source] ELSE NULL]

\* rss_fetcher.py lines 47-49 and 77-78: load the source, fetch and parse the feed;
\* `result` is "feed" or the exception rss_client.fetch raises
BeginFetch(p, sid, result, feed, in_batch, args) ==
    /\ fetches < MaxFetches
    /\ fetches' = fetches + 1
    /\ LET c == [FIdle EXCEPT !.source = sid, !.result = result, !.at = now,
                               !.in_batch = in_batch, !.run = fetches + 1,
                               !.queue = args.queue, !.lock = args.lock,
                               !.max_items = args.max_items,
                               !.feed = IF result = "feed" THEN feed ELSE << >>]
       IN IF sid \notin Sources
             THEN FDone(p, [c EXCEPT !.feed = << >>], "no_source", "")
             ELSE /\ fcall' = [fcall EXCEPT ![p] =
                        [c EXCEPT !.st0 = sources[sid].status, !.cf0 = failures[p][sid],
                                  !.lf0 = sources[sid].last_fetch_at,
                                  !.stored0 = (result = "feed" /\ AllStored(sid, feed)),
                                  !.pc = IF result # "feed" THEN "handle"
                                         ELSE IF feed = << >> THEN "finish" ELSE "ext"]]
                  /\ UNCHANGED flast

\* a call of fetch_and_save_source outside the batch driver with the given
\* task_queue, lock_store and max_items_per_run
FetchStartWith(p, sid, result, feed, args) ==
    /\ fcall[p].pc = "idle" /\ batch.pc = "idle"
    /\ UNCHANGED <<gvars, evars, pvars, sources, failures, items, batch>>
    /\ BeginFetch(p, sid, result, feed, FALSE, args)

\* source_service.py lines 47-55 for a SourceService built without task queue and
\* lock store, as the bot handlers build it
ServiceArgs == [queue |-> FALSE, lock |-> "none", max_items |-> max_generate_per_fetch]

\* tasks.py lines 50-52 and 97-103: CeleryTaskQueue, RedisLockStore over the shared Redis
TaskArgs == [queue |-> TRUE, lock |-> "store", max_items |-> max_generate_per_fetch]

\* a call of SourceService.fetch_source
FetchStart(p, sid, result, feed) == FetchStartWith(p, sid, result, feed, ServiceArgs)

\* the loop of lines 79-99 moves to the next entry, `made` telling whether an item was created
NextEntry(p, made) ==
    LET c == [fcall[p] EXCEPT !.idx = @ + 1, !.saved = IF made THEN @ + 1 ELSE @,
                              !.created = IF made THEN Append(@, Len(items) + 1) ELSE @]
    IN fcall' = [fcall EXCEPT ![p] =
                    [c EXCEPT !.pc = IF c.idx >= Len(c.feed) THEN "finish" ELSE "ext"]]

CurrentItem(p) == NewItem(fcall[p].source, fcall[p].feed[fcall[p].idx + 1])

\* source_items.py lines 45-47: an item with this external_id exists, return None
CreateItemCheckExternal(p) ==
    /\ fcall[p].pc = "ext"
    /\ UNCHANGED <<gvars, evars, pvars, sources, failures, items, flast, fetches, batch>>
    /\ IF get_by_external_id(fcall[p].source, CurrentItem(p).external_id) # {}
          THEN NextEntry(p, FALSE)
          ELSE fcall' = [fcall EXCEPT ![p].pc = "link"]

\* source_items.py lines 48-50: an item with this link exists, return None
CreateItemCheckLink(p) ==
    /\ fcall[p].pc = "link"
    /\ UNCHANGED <<gvars, evars, pvars, sources, failures, items, flast, fetches, batch>>
    /\ IF get_by_link(fcall[p].source, CurrentItem(p).link) # {}
          THEN NextEntry(p, FALSE)
          ELSE fcall' = [fcall EXCEPT ![p].pc = "commit"]

\* source_items.py lines 52-70 with a commit that ignores uq_source_items_link
CreateItemCommit_NoLinkConstraint(p) ==
    /\ fcall[p].pc = "commit"
    /\ UNCHANGED <<gvars, evars, pvars, sources, failures, flast, fetches, batch>>
    /\ IF get_by_external_id(fcall[p].source, CurrentItem(p).external_id) # {}
          THEN UNCHANGED items /\ NextEntry(p, FALSE)
          ELSE items' = Append(items, CurrentItem(p)) /\ NextEntry(p, TRUE)

\* source_items.py lines 52-70: insert and commit; IntegrityError rolls back, returns None
CreateItemCommit(p) ==
    /\ fcall[p].pc = "commit"
    /\ UNCHANGED <<gvars, evars, pvars, sources, failures, flast, fetches, batch>>
    /\ IF ItemViolation(CurrentItem(p))
          THEN UNCHANGED items /\ NextEntry(p, FALSE)
          ELSE items' = Append(items, CurrentItem(p)) /\ NextEntry(p, TRUE)

\* lock.py lines 20-26 (and the SET NX EX of line 34): the key is taken unless an
\* unexpired entry holds it; a refused acquire leaves the entry as it is
acquire_Reset(expires_at, ttl) == [ok |-> TRUE, expires_at |-> now + ttl]

acquire(expires_at, ttl) ==
    IF expires_at > now THEN [ok |-> FALSE, expires_at |-> expires_at]
    ELSE [ok |-> TRUE, expires_at |-> now + ttl]

\* seq[:n] of Python
Slice(seq, n) ==
    IF n >= 0 THEN SubSeq(seq, 1, IF n < Len(seq) THEN n ELSE Len(seq))
    ELSE SubSeq(seq, 1, IF Len(seq) + n > 0 THEN Len(seq) + n ELSE 0)

\* rss_fetcher.py line 109: max_items_per_run or settings.max_generate_per_fetch
EnqueueLimit(max_items) ==
    IF max_items # NULL /\ max_items # 0 THEN max_items ELSE max_generate_per_fetch

\* the elements of a set of numbers in ascending order
RECURSIVE SetToSortedSeq(_)
SetToSortedSeq(S) ==
    IF S = {} THEN << >>
    ELSE LET m == CHOOSE x \in S : \A y \in S : x <= y
         IN <<m>> \o SetToSortedSeq(S \ {m})

\* rss_fetcher.py lines 101-112 with the run enqueueing the stored items that have no
\* message yet, instead of the items it created
FetchFinish_Backlog(p) ==
    /\ fcall[p].pc = "finish"
    /\ UNCHANGED <<gvars, pvars, items, fetches, batch>>
    /\ sources' = update_status_row(fcall[p].source, "ok", NULL)
    /\ failures' = update_status_attr(p, fcall[p].source, 0)
    /\ LET c == fcall[p]
           a == acquire(IF c.lock = "store" THEN genlock ELSE 0, generate_lock_ttl)
           backlog == { i \in ItemIds : \A k \in 1..Len(enqueued) : enqueued[k].item # i }
           waiting == SetToSortedSeq(backlog)
           msgs == Slice(waiting, EnqueueLimit(c.max_items))
       IN IF waiting # << >> /\ c.queue
             THEN /\ genlock' = IF c.lock = "store" THEN a.expires_at ELSE genlock
                  /\ enqueued' = IF a.ok
                                    THEN enqueued \o [k \in 1..Len(msgs) |->
                                            [item |-> msgs[k], run |-> c.run, at |-> now,
                                             lock |-> c.lock]]
                                    ELSE enqueued
             ELSE UNCHANGED <<genlock, enqueued>>
    /\ FDone(p, fcall[p], "return", "")

\* rss_fetcher.py lines 101-112: the run succeeded; with created items and a task queue
\* it takes the project's generation lock (of the shared store, or of a store made for
\* this call) and enqueues the first `limit` created items
FetchFinish(p) ==
    /\ fcall[p].pc = "finish"
    /\ UNCHANGED <<gvars, pvars, items, fetches, batch>>
    /\ sources' = update_status_row(fcall[p].source, "ok", NULL)
    /\ failures' = update_status_attr(p, fcall[p].source, 0)
    /\ LET c == fcall[p]
           a == acquire(IF c.lock = "store" THEN genlock ELSE 0, generate_lock_ttl)
           msgs == Slice(c.created, EnqueueLimit(c.max_items))
       IN IF c.created # << >> /\ c.queue
             THEN /\ genlock' = IF c.lock = "store" THEN a.expires_at ELSE genlock
                  /\ enqueued' = IF a.ok
                                    THEN enqueued \o [k \in 1..Len(msgs) |->
                                            [item |-> msgs[k], run |-> c.run, at |-> now,
                                             lock |-> c.lock]]
                                    ELSE enqueued
             ELSE UNCHANGED <<genlock, enqueued>>
    /\ FDone(p, fcall[p], "return", "")

\* the batch run dies with the exception that escaped the fetch
BatchAbort == [NoBatch EXCEPT !.runs = batch.runs + 1,
                              !.last = [kind |-> "aborted", at |-> batch.at, due0 |-> batch.due0,
                                        fetched |-> batch.fetched, passed |-> batch.passed]]

\* rss_fetcher.py lines 113-143: the three except branches; reading
\* source.consecutive_failures raises AttributeError when the attribute was never
\* set on the loaded instance, and the error leaves fetch_and_save_source
HandleFetchError(p) ==
    /\ fcall[p].pc = "handle"
    /\ UNCHANGED <<gvars, evars, pvars, items, fetches>>
    /\ LET sid == fcall[p].source
           new_failures == failures[p][sid] + 1
           status == IF new_failures >= source_fail_threshold THEN "broken" ELSE "error"
       IN IF failures[p][sid] = NULL
             THEN /\ UNCHANGED sources
                  /\ IF fcall[p].in_batch
                        THEN batch' = BatchAbort /\ failures' = FreshSession(p)
                        ELSE UNCHANGED <<batch, failures>>
                  /\ FDone(p, fcall[p], "raise", "AttributeError")
             ELSE /\ sources' = update_status_row(sid, status, fcall[p].result)
                  /\ failures' = update_status_attr(p, sid, new_failures)
                  /\ UNCHANGED batch
                  /\ FDone(p, fcall[p], "return", "")

FStep(p) ==
    \/ CreateItemCheckExternal(p)
    \/ CreateItemCheckLink(p)
    \/ CreateItemCommit(p)
    \/ FetchFinish(p)
    \/ HandleFetchError(p)

FetchIdle == \A p \in FProcs : fcall[p].pc = "idle"

\* the caller closes its session and opens a new one (tasks.py lines 55 and 88: every
\* task run works in a session of its own)
NewSession(p) ==
    /\ fcall[p].pc = "idle" /\ batch.pc = "idle"
    /\ \E s \in Sources : failures[p][s] # NULL
    /\ failures' = FreshSession(p)
    /\ UNCHANGED <<gvars, evars, pvars, sources, items, fcall, flast, fetches, batch>>

\* celery_app.py lines 24-28: the beat period of fetch_all_sources, in seconds
BeatPeriod == fetch_interval_min * 60

\* tasks.py lines 92-96: the source is broken and its backoff window has not elapsed
InBackoff(s) ==
    /\ sources[s].status = "broken" /\ sources[s].last_fetch_at # NULL
    /\ now - sources[s].last_fetch_at < sources[s].fetch_interval_min * 3 * 60

\* broken sources whose backoff window has elapsed
DueForRetry == { s \in Sources : sources[s].status = "broken" /\ ~InBackoff(s) }

\* the orders list_all can return the rows in (the query has no ORDER BY)
Orders == { q \in [1..Cardinality(Sources) -> Sources] :
              \A i, j \in 1..Cardinality(Sources) : i # j => q[i] # q[j] }

\* tasks.py lines 76-90: a run of fetch_all_sources opens its session and lists the sources
BatchStart ==
    /\ batch.pc = "idle" /\ FetchIdle /\ batch.runs < MaxRuns
    /\ \E q \in Orders :
          batch' = [batch EXCEPT !.pc = "loop", !.queue = q, !.at = now, !.due0 = DueForRetry,
                                 !.fetched = {}, !.passed = {}]
    /\ failures' = FreshSession(1)
    /\ UNCHANGED <<gvars, evars, pvars, sources, items, fcall, flast, fetches>>

\* tasks.py lines 91-103: the next source of the list is passed over or fetched
BatchNext(result, feed) ==
    /\ batch.pc = "loop" /\ fcall[1].pc = "idle" /\ batch.queue # << >>
    /\ UNCHANGED <<gvars, evars, pvars, sources, failures, items>>
    /\ LET src == Head(batch.queue)
       IN IF InBackoff(src)
             THEN /\ batch' = [batch EXCEPT !.queue = Tail(@), !.passed = @ \cup {src}]
                  /\ UNCHANGED <<fcall, flast, fetches>>
             ELSE /\ batch' = [batch EXCEPT !.queue = Tail(@), !.fetched = @ \cup {src}]
                  /\ BeginFetch(1, src, result, feed, TRUE, TaskArgs)

\* tasks.py lines 104-109: the list is exhausted, the session is closed
BatchEnd ==
    /\ batch.pc = "loop" /\ fcall[1].pc = "idle" /\ batch.queue = << >>
    /\ batch' = [NoBatch EXCEPT !.runs = batch.runs + 1,
                                !.last = [kind |-> "done", at |-> batch.at, due0 |-> batch.due0,
                                          fetched |-> batch.fetched, passed |-> batch.passed]]
    /\ failures' = FreshSession(1)
    /\ UNCHANGED <<gvars, evars, pvars, sources, items, fcall, flast, fetches>>

\* the instants the fetcher is observed at: the start, one beat later, one beat short
\* of a backoff window of 3 * 60 minutes, the window, and one beat past it
FetchInstants == { 79080 + t : t \in {0, BeatPeriod, 10800 - BeatPeriod, 10800,
                                       10800 + BeatPeriod} }

FetchTick(t) ==
    /\ FetchIdle /\ batch.pc = "idle"
    /\ t > now
    /\ now' = t
    /\ UNCHANGED <<gvars, fvars, due, draftStatus, channel, schedule, safe_mode, logs, idem, quota,
                   usage, sent, sendCalls, call, returns>>

\* the publication engine at rest
InitFetch ==
    /\ now = 79080
    /\ draftStatus = [d \in Drafts |-> "new"]
    /\ schedule = NoSchedule /\ safe_mode = FALSE /\ channel = "connected"
    /\ quota = QuotaInit("QuotaService")
    /\ InitStores

\* feeds of the runs in which only the source's status matters
StatusFeeds == { <<[id |-> "a", link |-> "x", title |-> "t"]>> }

\* the errors drawn there: one handled by _handle_fetch_error, one by the last branch
StatusErrors == {"timeout", "boom"}

NextFetch ==
    \/ \E sid \in SourceIds, r \in {"feed"} \cup StatusErrors, f \in StatusFeeds :
          FetchStart(1, sid, r, f)
    \/ FStep(1)
    \/ NewSession(1)
    \/ \E t \in FetchInstants : FetchTick(t)
    \/ BatchStart
    \/ \E r \in {"feed"} \cup StatusErrors, f \in StatusFeeds : BatchNext(r, f)
    \/ BatchEnd

SpecFetch == InitFetch /\ [][NextFetch]_vars

\* two fetch runs of source 1 at a time, interleaved at their awaits
NextItems ==
    \/ \E p \in FProcs, f \in Feeds :
          fetches < MaxItemFetches /\ FetchStart(p, 1, "feed", f)
    \/ \E p \in FProcs : CreateItemCheckExternal(p)
    \/ \E p \in FProcs : CreateItemCheckLink(p)
    \/ \E p \in FProcs : CreateItemCommit(p)
    \/ \E p \in FProcs : FetchFinish(p)

SpecItems == InitFetch /\ [][NextItems]_vars

\* feeds of the runs whose enqueueing is observed: one entry, then a second one
EnqueueFeeds == { <<[id |-> "a", link |-> "x", title |-> "t"]>>,
                  <<[id |-> "a", link |-> "x", title |-> "t"],
                    [id |-> "b", link |-> "y", title |-> "t"]>> }

\* the arguments fetch_and_save_source is called with
EnqueueArgs == { [queue |-> TRUE, lock |-> "store", max_items |-> 1],
                 [queue |-> TRUE, lock |-> "store", max_items |-> NULL],
                 [queue |-> TRUE, lock |-> "none", max_items |-> 1],
                 [queue |-> FALSE, lock |-> "store", max_items |-> 1] }

\* instants around the lock's expiry: half a TTL and the TTL
LockInstants == { 79080 + t : t \in {30, 60} }

\* time passes, also while calls are in progress
LockTick(t) ==
    /\ t > now
    /\ now' = t
    /\ UNCHANGED <<gvars, fvars, due, draftStatus, channel, schedule, safe_mode, logs, idem,
                   quota, usage, sent, sendCalls, call, returns>>

\* fetch runs of source 1, two at a time, with and without queue and lock
NextEnqueue ==
    \/ \E p \in FProcs, f \in EnqueueFeeds, a \in EnqueueArgs :
          fetches < MaxEnqueueFetches /\ FetchStartWith(p, 1, "feed", f, a)
    \/ \E p \in FProcs : CreateItemCheckExternal(p)
    \/ \E p \in FProcs : CreateItemCheckLink(p)
    \/ \E p \in FProcs : CreateItemCommit(p)
    \/ \E p \in FProcs : FetchFinish(p)
    \/ \E t \in LockInstants : LockTick(t)

SpecEnqueue == InitFetch /\ [][NextEnqueue]_vars

\* ------------------------------------------------------------ draft generator
MaxGen == 4
MaxGenConc == 2
drafts_per_day == 2
llm_calls_per_day == 2
duplicate_window_days == 1

\* source_items rows: items 1 and 2 carry the same content under different links;
\* item 3 has its facts cached
ContentHash(i) == IF i \in {1, 2} THEN "h" ELSE "k"

\* the template_id argument, "None" when it is not given
Templates == {"None", "news"}

\* text.py lines 45-48: the hash of project, item id, template_id or "" and raw text;
\* project and raw text are fixed by the item
compute_draft_hash(item, template_id) ==
    <<item, IF template_id = "None" THEN "" ELSE template_id>>

DraftRowIds == 1..Len(drafts)

NewDraft(item, template_id) ==
    [source_item_id |-> item, template_id |-> template_id,
     draft_hash |-> compute_draft_hash(item, template_id), created_at |-> now]

\* post_drafts.py lines 17-20
get_by_hash(h) == { k \in DraftRowIds : drafts[k].draft_hash = h }

\* draft_service.py line 79
Since == now - duplicate_window_days * DaySeconds

\* post_drafts.py lines 27-33
has_recent_hash(h, since) ==
    \E k \in DraftRowIds : drafts[k].draft_hash = h /\ drafts[k].created_at >= since

\* post_drafts.py lines 35-46: the join runs over every source item with this content hash
has_recent_content_hash(ch, since) ==
    \E k \in DraftRowIds :
        ContentHash(drafts[k].source_item_id) = ch /\ drafts[k].created_at >= since

\* uq_post_drafts_hash rejects the row
DraftViolation(row) == \E k \in DraftRowIds : drafts[k].draft_hash = row.draft_hash

\* INCR on a key that outlives the day
GQuotaIncr_NeverExpires(kind) == gquota.keys[kind].value + 1

\* value of the Redis counter of `kind` after INCR, an expired key counting as absent
GQuotaIncr(kind) ==
    IF gquota.keys[kind].expires_at # 0 /\ gquota.keys[kind].expires_at <= now THEN 1
    ELSE gquota.keys[kind].value + 1

\* quota.py lines 55-58: INCR, EXPIRE to the end of the UTC day on the first hit
IncrementWithLimit(kind) ==
    [gquota EXCEPT !.keys[kind] =
        [value |-> GQuotaIncr(kind),
         expires_at |-> IF GQuotaIncr(kind) = 1 THEN now + _ttl_to_end_of_day(now)
                        ELSE @.expires_at]]

\* quota.py lines 62-79: the daily limit of a kind
QuotaLimit(kind) ==
    CASE kind = "drafts" -> drafts_per_day
      [] kind = "publishes" -> publishes_per_day
      [] kind = "llm_calls" -> llm_calls_per_day

\* the quota backend after an ensure call of `kind`; NoopQuotaService does nothing
EnsureQuota(kind) ==
    IF gquota.service = "QuotaService" THEN IncrementWithLimit(kind) ELSE gquota

\* quota.py lines 59-60: the ensure call raises QuotaExceededError
QuotaRaises(kind) == gquota.service = "QuotaService" /\ GQuotaIncr(kind) > QuotaLimit(kind)

GenStarted == Len(greturns) + Cardinality({ p \in GProcs : gcall[p].pc # "idle" })

GenIdle == \A p \in GProcs : gcall[p].pc = "idle"

\* the generate_draft call of process p ends: it returns the draft `row` ("return") or
\* raises `err`, which wraps `cause` when the except clause of line 108 caught it
GDone(p, c, kind, err, cause, row) ==
    /\ gcall' = [gcall EXCEPT ![p] = GIdle]
    /\ greturns' = Append(greturns,
          [kind |-> kind, err |-> err, cause |-> cause, row |-> row, item |-> c.item,
           template |-> c.template, cached |-> c.cached, admitted |-> c.admitted,
           at |-> c.at, fin |-> now, events |-> c.events,
           llm0 |-> c.llm0, llm1 |-> gusage'[_today_utc(now)].llm_calls,
           dg0 |-> c.dg0, dg1 |-> gusage'[_today_utc(now)].drafts_generated,
           n0 |-> c.n0, n1 |-> Len(drafts'),
           hash |-> compute_draft_hash(c.item, c.template), lost |-> c.lost,
           dup0 |-> c.dup0,
           service |-> gquota.service])

\* draft_service.py lines 56-62: load the item and its source
GenerateDraftLoad(p, item, template_id) ==
    /\ gcall[p].pc = "idle" /\ GenStarted < MaxGen
    /\ UNCHANGED <<fvars, pvars, facts, drafts, gquota, gusage, stores, render, xvars>>
    /\ LET c == [GIdle EXCEPT !.item = item, !.template = template_id, !.at = now,
                              !.llm0 = gusage[_today_utc(now)].llm_calls,
                              !.dg0 = gusage[_today_utc(now)].drafts_generated,
                              !.n0 = Len(drafts),
                              !.dup0 = /\ item \in GenItems
                                       /\ \/ has_recent_hash(
                                                compute_draft_hash(item, template_id), Since)
                                          \/ has_recent_content_hash(ContentHash(item), Since),
                              !.cached = IF item \in GenItems THEN facts[item] ELSE FALSE]
       IN IF item \notin GenItems
             THEN GDone(p, c, "raise", "DraftGenerationError", "Source item not found", NULL)
             ELSE /\ gcall' = [gcall EXCEPT ![p] = [c EXCEPT !.pc = "quota"]]
                  /\ UNCHANGED greturns

\* draft_service.py line 70: ensure_can_generate; QuotaExceededError leaves the call
GenerateDraftQuota(p) ==
    /\ gcall[p].pc = "quota"
    /\ UNCHANGED <<fvars, pvars, facts, drafts, gusage, stores, render, xvars>>
    /\ gquota' = EnsureQuota("drafts")
    /\ IF QuotaRaises("drafts")
          THEN GDone(p, gcall[p], "raise", "QuotaExceededError", "drafts", NULL)
          ELSE /\ gcall' = [gcall EXCEPT ![p].pc = "dup", ![p].admitted = TRUE]
               /\ UNCHANGED greturns

\* draft_service.py lines 79-87 without the content hash check of lines 88-89
GenerateDraftDuplicate_HashOnly(p) ==
    /\ gcall[p].pc = "dup"
    /\ UNCHANGED <<fvars, pvars, facts, drafts, gquota, gusage, stores, render, xvars>>
    /\ LET c == gcall[p]
       IN IF has_recent_hash(compute_draft_hash(c.item, c.template), Since)
             THEN GDone(p, c, "raise", "DraftGenerationError", "Duplicate draft detected", NULL)
          ELSE /\ gcall' = [gcall EXCEPT ![p].pc = IF c.cached THEN "render_q" ELSE "facts_q"]
               /\ UNCHANGED greturns

\* draft_service.py lines 79-89: the two duplicate checks
GenerateDraftDuplicate(p) ==
    /\ gcall[p].pc = "dup"
    /\ UNCHANGED <<fvars, pvars, facts, drafts, gquota, gusage, stores, render, xvars>>
    /\ LET c == gcall[p]
       IN IF has_recent_hash(compute_draft_hash(c.item, c.template), Since)
             THEN GDone(p, c, "raise", "DraftGenerationError", "Duplicate draft detected", NULL)
          ELSE IF has_recent_content_hash(ContentHash(c.item), Since)
             THEN GDone(p, c, "raise", "DraftGenerationError", "Duplicate content detected", NULL)
          ELSE /\ gcall' = [gcall EXCEPT ![p].pc = IF c.cached THEN "render_q" ELSE "facts_q"]
               /\ UNCHANGED greturns

\* draft_service.py lines 149 and 185: ensure_can_call_llm inside the try block of
\* lines 91-109, whose except clause turns every exception into DraftGenerationError
GenerateDraftLLMQuota(p) ==
    /\ gcall[p].pc \in {"facts_q", "render_q"}
    /\ UNCHANGED <<fvars, pvars, facts, drafts, gusage, stores, render, xvars>>
    /\ gquota' = EnsureQuota("llm_calls")
    /\ IF QuotaRaises("llm_calls")
          THEN GDone(p, gcall[p], "raise", "DraftGenerationError", "QuotaExceededError", NULL)
          ELSE /\ gcall' = [gcall EXCEPT ![p].events = Append(@, "check"),
                                         ![p].pc = IF gcall[p].pc = "facts_q" THEN "facts_llm"
                                                   ELSE "render_llm"]
               /\ UNCHANGED greturns

\* facts extraction that leaves the usage counters alone
GenerateDraftFacts_Uncounted(p, answer) ==
    /\ gcall[p].pc = "facts_llm"
    /\ UNCHANGED <<fvars, pvars, drafts, gquota, stores, render, xvars>>
    /\ LET c == [gcall[p] EXCEPT !.events = Append(@, "call")]
       IN IF answer = "error"
             THEN /\ UNCHANGED <<facts, gusage>>
                  /\ GDone(p, c, "raise", "DraftGenerationError", "backend", NULL)
             ELSE /\ UNCHANGED gusage
                  /\ facts' = [facts EXCEPT ![c.item] = (answer = "ok")]
                  /\ gcall' = [gcall EXCEPT ![p] = [c EXCEPT !.pc = "render_q"]]
                  /\ UNCHANGED greturns

\* draft_service.py lines 156-163 and 95-96: the backend extracts the facts ("ok"),
\* answers with nothing but white space ("empty") or fails ("error"); an answer is
\* counted in llm_calls and written to facts_cache
GenerateDraftFacts(p, answer) ==
    /\ gcall[p].pc = "facts_llm"
    /\ UNCHANGED <<fvars, pvars, drafts, gquota, stores, render, xvars>>
    /\ LET c == [gcall[p] EXCEPT !.events = Append(@, "call")]
       IN IF answer = "error"
             THEN /\ UNCHANGED <<facts, gusage>>
                  /\ GDone(p, c, "raise", "DraftGenerationError", "backend", NULL)
             ELSE /\ gusage' = [gusage EXCEPT ![_today_utc(now)].llm_calls = @ + 1]
                  /\ facts' = [facts EXCEPT ![c.item] = (answer = "ok")]
                  /\ gcall' = [gcall EXCEPT ![p] = [c EXCEPT !.pc = "render_q"]]
                  /\ UNCHANGED greturns

\* draft_service.py lines 186-206: the backend renders the post or fails
GenerateDraftRender(p, answer) ==
    /\ gcall[p].pc = "render_llm"
    /\ UNCHANGED <<fvars, pvars, facts, drafts, gquota, stores, render, xvars>>
    /\ LET c == [gcall[p] EXCEPT !.events = Append(@, "call")]
       IN IF answer = "error"
             THEN /\ UNCHANGED gusage
                  /\ GDone(p, c, "raise", "DraftGenerationError", "backend", NULL)
             ELSE /\ gusage' = [gusage EXCEPT ![_today_utc(now)].llm_calls = @ + 1]
                  /\ gcall' = [gcall EXCEPT ![p] = [c EXCEPT !.pc = "create"]]
                  /\ UNCHANGED greturns

\* post_drafts.py lines 101-103: look for a draft with the hash
CreateDraftCheck(p) ==
    /\ gcall[p].pc = "create"
    /\ UNCHANGED <<fvars, pvars, facts, drafts, gquota, gusage, greturns, stores, render, xvars>>
    /\ LET rows == get_by_hash(compute_draft_hash(gcall[p].item, gcall[p].template))
       IN gcall' = [gcall EXCEPT ![p].row = IF rows = {} THEN NULL ELSE TheRow(rows),
                                 ![p].pc = IF rows = {} THEN "insert" ELSE "usage"]

\* post_drafts.py lines 105-117 with a commit that ignores uq_post_drafts_hash
CreateDraftInsert_NoConstraint(p) ==
    /\ gcall[p].pc = "insert"
    /\ UNCHANGED <<fvars, pvars, facts, gquota, gusage, greturns, stores, render, xvars>>
    /\ drafts' = Append(drafts, NewDraft(gcall[p].item, gcall[p].template))
    /\ gcall' = [gcall EXCEPT ![p].row = Len(drafts) + 1, ![p].pc = "usage"]

\* post_drafts.py lines 105-123: insert and commit; on IntegrityError roll back and
\* return the row that holds the hash
CreateDraftInsert(p) ==
    /\ gcall[p].pc = "insert"
    /\ UNCHANGED <<fvars, pvars, facts, gquota, gusage, greturns, stores, render, xvars>>
    /\ LET row == NewDraft(gcall[p].item, gcall[p].template)
       IN IF DraftViolation(row)
             THEN /\ UNCHANGED drafts
                  /\ gcall' = [gcall EXCEPT ![p].row = TheRow(get_by_hash(row.draft_hash)),
                                            ![p].lost = TRUE, ![p].pc = "usage"]
             ELSE /\ drafts' = Append(drafts, row)
                  /\ gcall' = [gcall EXCEPT ![p].row = Len(drafts) + 1, ![p].pc = "usage"]

\* draft_service.py lines 117-127: count the draft and return it
GenerateDraftReturn(p) ==
    /\ gcall[p].pc = "usage"
    /\ UNCHANGED <<fvars, pvars, facts, drafts, gquota, stores, render, xvars>>
    /\ gusage' = [gusage EXCEPT ![_today_utc(now)].drafts_generated = @ + 1]
    /\ GDone(p, gcall[p], "return", "", "", gcall[p].row)

BackendAnswers == {"ok", "empty", "error"}

\* the steps of a call, the backend answering from `answers`
GStep(p, answers) ==
    \/ GenerateDraftQuota(p)
    \/ GenerateDraftDuplicate(p)
    \/ GenerateDraftLLMQuota(p)
    \/ \E a \in answers : GenerateDraftFacts(p, a)
    \/ \E a \in answers \ {"empty"} : GenerateDraftRender(p, a)
    \/ CreateDraftCheck(p)
    \/ CreateDraftInsert(p)
    \/ GenerateDraftReturn(p)

\* the instants generation is observed at: the start, more than a day later on the
\* second UTC day, more than two days later on the third
GenInstants == {79080, 165720, 255000}

GenTick(t) ==
    /\ GenIdle
    /\ t > now
    /\ now' = t
    /\ UNCHANGED <<gvars, fvars, due, draftStatus, channel, schedule, safe_mode, logs, idem,
                   quota, usage, sent, sendCalls, call, returns>>

\* the fetcher and the publication engine at rest, the generator built with either
\* quota backend (tasks.py lines 121-129)
InitGenWith(st, rd) ==
    /\ now = 79080
    /\ draftStatus = [d \in Drafts |-> "new"]
    /\ schedule = NoSchedule /\ safe_mode = FALSE /\ channel = "connected"
    /\ quota = QuotaInit("QuotaService")
    /\ logs = << >>
    /\ idem = [d \in DraftIds |-> 0]
    /\ usage = [d \in Days |-> 0]
    /\ sent = << >>
    /\ sendCalls = [d \in Drafts |-> 0]
    /\ call = [p \in Procs |-> Idle]
    /\ returns = << >>
    /\ due = NoDue
    /\ FetchStores
    /\ facts = [i \in GenItems |-> i = 3]
    /\ drafts = << >>
    /\ \E q \in {"QuotaService", "NoopQuotaService"} :
          gquota = [service |-> q,
                    keys |-> [k \in QuotaKinds |-> [value |-> 0, expires_at |-> 0]]]
    /\ gusage = [d \in Days |-> [llm_calls |-> 0, drafts_generated |-> 0]]
    /\ gcall = [p \in GProcs |-> GIdle]
    /\ greturns = << >>
    /\ stores = st
    /\ render = rd
    /\ rate = NoRate
    /\ urows = << >>

InitGen == InitGenWith(NoStores, NoRender)

\* generate_draft calls one after the other, time passing between them
NextGen ==
    \/ \E item \in GenItems : GenerateDraftLoad(1, item, "None")
    \/ GStep(1, {"ok", "error"})
    \/ \E t \in GenInstants : GenTick(t)

SpecGen == InitGen /\ [][NextGen]_vars

\* two generate_draft calls at a time for item 1 or a missing item, interleaved at
\* their awaits
NextGenConc ==
    \/ \E p \in GProcs, item \in {0, 1}, t \in Templates :
          GenStarted < MaxGenConc /\ GenerateDraftLoad(p, item, t)
    \/ \E p \in GProcs : GStep(p, BackendAnswers)

SpecGenConc == InitGen /\ [][NextGenConc]_vars

\* ------------------------------------------------------------ post rendering
MaxOutLen == 4
MaxLinkLen == 3
MaxPostLen == 4

\* texts are sequences of characters; " " stands for the white space of \s
BodyChars == {"a", "b", " "}
LinkChars == {"a", "b"}
Texts(chars, n) == UNION { [1..k -> chars] : k \in 0..n }

RECURSIVE lstrip(_)
lstrip(s) == IF s # << >> /\ Head(s) = " " THEN lstrip(Tail(s)) ELSE s
RECURSIVE rstrip(_)
rstrip(s) == IF s # << >> /\ s[Len(s)] = " " THEN rstrip(SubSeq(s, 1, Len(s) - 1)) ELSE s
\* str.strip()
strip(s) == rstrip(lstrip(s))

\* re.sub(r"\s+", " ", text): every run of white space becomes one blank
RECURSIVE Collapse(_)
Collapse(s) ==
    IF Len(s) <= 1 THEN s
    ELSE IF s[1] = " " /\ s[2] = " " THEN Collapse(Tail(s))
    ELSE <<s[1]>> \o Collapse(Tail(s))

\* text.py lines 7-9
normalize_text(text) == strip(Collapse(text))

\* Python `link in content`
Contains(content, link) ==
    \E i \in 0..Len(content) :
        i + Len(link) <= Len(content) /\ SubSeq(content, i + 1, i + Len(link)) = link

\* llm_gateway.py lines 46-50: the answer is cut to max_post_len characters
GatewayContent(output, max_post_len) ==
    IF Len(output) > max_post_len THEN Slice(output, max_post_len) ELSE output

\* the link appended to the whole body, with only the final cut of lines 204-205
RenderText_NoTrim(output, link, max_post_len) ==
    LET content == normalize_text(GatewayContent(output, max_post_len))
        joined == IF Contains(content, link) THEN content
                  ELSE strip(content \o <<" ">> \o link)
    IN IF Len(joined) > max_post_len THEN Slice(joined, max_post_len) ELSE joined

\* draft_service.py lines 195-206: the text _render_post returns for a backend output
RenderText(output, link, max_post_len) ==
    LET content == normalize_text(GatewayContent(output, max_post_len))
        available_len == IF max_post_len - Len(link) - 1 < 0 THEN 0
                         ELSE max_post_len - Len(link) - 1
        body == IF Len(content) > available_len THEN Slice(content, available_len)
                ELSE content
        joined == IF Contains(content, link) THEN content
                  ELSE strip(body \o <<" ">> \o link)
    IN IF Len(joined) > max_post_len THEN Slice(joined, max_post_len) ELSE joined

\* _render_post post-processes the backend output it was given
RenderPost ==
    /\ ~render.done
    /\ render' = [done |-> TRUE, output |-> render.output, link |-> render.link,
                  max_post_len |-> render.max_post_len,
                  text |-> RenderText(render.output, render.link, render.max_post_len)]
    /\ UNCHANGED <<fvars, pvars, facts, drafts, gquota, gusage, gcall, greturns, stores, xvars>>

\* one rendering for every backend output, every link of an item (feed links carry no
\* white space, an entry without link has "") and every max_post_len > 0
InitRender ==
    \E o \in Texts(BodyChars, MaxOutLen), l \in Texts(LinkChars, MaxLinkLen),
       m \in 1..MaxPostLen :
        /\ InitGenWith(NoStores, [done |-> FALSE, output |-> o, link |-> l,
                                  max_post_len |-> m])
        /\ gquota.service = "NoopQuotaService"

NextRender == RenderPost

SpecRender == InitRender /\ [][NextRender]_vars

\* ------------------------------------------------------------ acquire stores
MaxAcquire == 3
COOLDOWN_TTL_SECONDS == 45

\* the idempotency store's acquire: set-if-absent with expiry
idempotency_acquire(expires_at, ttl) ==
    IF expires_at > now THEN [ok |-> FALSE, expires_at |-> expires_at]
    ELSE [ok |-> TRUE, expires_at |-> now + ttl]

\* the TTL each store's key is taken with: generate:{project}, publish:{draft},
\* draft:{project}
StoreTTL(k) ==
    CASE k = "lock" -> generate_lock_ttl
      [] k = "idempotency" -> PUBLISH_TTL
      [] k = "cooldown" -> COOLDOWN_TTL_SECONDS

\* acquire(key, ttl) of store k on its one key
StoreAcquireOp(k) ==
    IF k = "idempotency" THEN idempotency_acquire(stores[k], StoreTTL(k))
    ELSE acquire(stores[k], StoreTTL(k))

\* the result of an acquire, as the caller and the store saw it
AcquireResult(k, via, a, enq) ==
    [kind |-> "acquire", store |-> k, via |-> via, at |-> now, ttl |-> StoreTTL(k),
     ok |-> a.ok, exp0 |-> stores[k], exp1 |-> a.expires_at, enq |-> enq]

\* an acquire whose refusal pushes the expiry forward
StoreAcquire_Extends(p, k) ==
    /\ gcall[p].pc = "idle" /\ GenStarted < MaxAcquire
    /\ UNCHANGED <<fvars, pvars, facts, drafts, gquota, gusage, gcall, render, xvars>>
    /\ LET a == StoreAcquireOp(k)
       IN /\ stores' = [stores EXCEPT ![k] = now + StoreTTL(k)]
          /\ greturns' = Append(greturns,
                [AcquireResult(k, "direct", a, 0) EXCEPT !.exp1 = now + StoreTTL(k)])

\* lock.py lines 20-26 and 33-34, cooldown.py lines 24-30 and 37-38: one acquire of
\* the key by process p; the call has no await inside (in memory) or is one SET NX EX
StoreAcquire(p, k) ==
    /\ gcall[p].pc = "idle" /\ GenStarted < MaxAcquire
    /\ UNCHANGED <<fvars, pvars, facts, drafts, gquota, gusage, gcall, render, xvars>>
    /\ LET a == StoreAcquireOp(k)
       IN /\ stores' = [stores EXCEPT ![k] = a.expires_at]
          /\ greturns' = Append(greturns, AcquireResult(k, "direct", a, 0))

\* router.py lines 834-853: a manual generate request found the project, a source and
\* a new item and passed the drafts quota
GenerateNowStart(p) ==
    /\ gcall[p].pc = "idle" /\ GenStarted < MaxAcquire
    /\ gcall' = [gcall EXCEPT ![p] = [GIdle EXCEPT !.pc = "cooldown", !.item = 1,
                                                   !.at = now]]
    /\ UNCHANGED <<fvars, pvars, facts, drafts, gquota, gusage, greturns, stores, render, xvars>>

\* router.py lines 855-861: the request takes the cooldown key or answers that a
\* generation is already running; only with the key does it enqueue the item
GenerateNowAcquire(p) ==
    /\ gcall[p].pc = "cooldown"
    /\ UNCHANGED <<pvars, sources, failures, items, fcall, flast, fetches, batch, genlock,
                   facts, drafts, gquota, gusage, render, xvars>>
    /\ LET a == StoreAcquireOp("cooldown")
       IN /\ stores' = [stores EXCEPT !["cooldown"] = a.expires_at]
          /\ enqueued' = IF a.ok
                            THEN Append(enqueued, [item |-> gcall[p].item, run |-> 0,
                                                   at |-> now, lock |-> "cooldown"])
                            ELSE enqueued
          /\ gcall' = [gcall EXCEPT ![p] = GIdle]
          /\ greturns' = Append(greturns,
                AcquireResult("cooldown", "handler", a, Len(enqueued') - Len(enqueued)))

\* the instants acquires are observed at: inside the cooldown window, at its end, at
\* the end of the lock's TTL and at the end of the idempotency key's
StoreInstants == {79080 + 30, 79080 + COOLDOWN_TTL_SECONDS, 79080 + generate_lock_ttl,
                  79080 + PUBLISH_TTL}

StoreTick(t) ==
    /\ t > now
    /\ now' = t
    /\ UNCHANGED <<gvars, fvars, due, draftStatus, channel, schedule, safe_mode, logs, idem,
                   quota, usage, sent, sendCalls, call, returns>>

\* every store empty, the handler's quota service the no-op one
InitAcquire ==
    /\ InitGenWith(NoStores, NoRender)
    /\ gquota.service = "NoopQuotaService"

\* repeated and concurrent acquires on the three stores and manual generate requests
NextAcquire ==
    \/ \E p \in GProcs, k \in StoreKinds : StoreAcquire(p, k)
    \/ \E p \in GProcs : GenerateNowStart(p)
    \/ \E p \in GProcs : GenerateNowAcquire(p)
    \/ \E t \in StoreInstants : StoreTick(t)

SpecAcquire == InitAcquire /\ [][NextAcquire]_vars

\* ------------------------------------------------------------ publish rate limiter
MaxRate == 4
publishes_per_hour == 2
window_seconds == 3600

\* the key rate:publish:{project} has run out of its TTL
RateExpired == rate.expires_at # 0 /\ rate.expires_at <= now

\* Redis TTL: -2 for a missing key, -1 for a key without expiry, else the seconds left
RedisTtl ==
    IF rate.value = 0 \/ RateExpired THEN 0 - 2
    ELSE IF rate.expires_at = 0 THEN 0 - 1
    ELSE rate.expires_at - now

\* the ensure_can_publish call of process p ends
RDone(p, c, raised, ttl, retry_after) ==
    /\ gcall' = [gcall EXCEPT ![p] = GIdle]
    /\ greturns' = Append(greturns,
          [kind |-> "rate", value |-> c.value, at |-> c.at, gen |-> c.gen, exp0 |-> c.exp0,
           fin |-> now, raised |-> raised, ttl |-> ttl, retry_after |-> retry_after])

\* rate_limit.py lines 36-38 after a command has answered: what the call does next
RateAfter(p, c, expired_set) ==
    IF c.value = 1 /\ ~expired_set
       THEN gcall' = [gcall EXCEPT ![p] = [c EXCEPT !.pc = "expire"]] /\ UNCHANGED greturns
    ELSE IF c.value > publishes_per_hour
       THEN gcall' = [gcall EXCEPT ![p] = [c EXCEPT !.pc = "ttl"]] /\ UNCHANGED greturns
    ELSE RDone(p, c, FALSE, NULL, NULL)

\* rate_limit.py line 35: INCR adds one, or creates the key with value 1 and no TTL
RateIncr(p) ==
    /\ gcall[p].pc = "idle" /\ GenStarted < MaxRate
    /\ UNCHANGED <<fvars, pvars, facts, drafts, gquota, gusage, stores, render, urows>>
    /\ rate' = IF rate.value = 0 \/ RateExpired
                  THEN [value |-> 1, expires_at |-> 0, gen |-> rate.gen + 1]
                  ELSE [rate EXCEPT !.value = @ + 1]
    /\ RateAfter(p, [pc |-> "incr", value |-> rate'.value, at |-> now, gen |-> rate'.gen,
                     exp0 |-> rate.expires_at], FALSE)

\* rate_limit.py lines 36-37: EXPIRE gives the key the window as TTL (a key that is gone
\* is left alone)
RateExpire(p) ==
    /\ gcall[p].pc = "expire"
    /\ UNCHANGED <<fvars, pvars, facts, drafts, gquota, gusage, stores, render, urows>>
    /\ rate' = IF rate.value = 0 \/ RateExpired THEN rate
               ELSE [rate EXCEPT !.expires_at = now + window_seconds]
    /\ RateAfter(p, gcall[p], TRUE)

\* the rejection always names the whole window
RateTtl_FullWindow(p) ==
    /\ gcall[p].pc = "ttl"
    /\ UNCHANGED <<fvars, pvars, facts, drafts, gquota, gusage, stores, render, xvars>>
    /\ RDone(p, gcall[p], TRUE, RedisTtl, window_seconds)

\* rate_limit.py lines 39-41: TTL is read and RateLimitExceededError raised with it
RateTtl(p) ==
    /\ gcall[p].pc = "ttl"
    /\ UNCHANGED <<fvars, pvars, facts, drafts, gquota, gusage, stores, render, xvars>>
    /\ RDone(p, gcall[p], TRUE, RedisTtl,
             IF RedisTtl > 0 THEN RedisTtl ELSE window_seconds)

\* the instants the limiter is observed at: the start, the middle and the end of the
\* first window, and the middle of the hour after it
RateInstants == {79080 + 1800, 79080 + window_seconds, 79080 + 5400}

RateTick(t) ==
    /\ t > now
    /\ now' = t
    /\ UNCHANGED <<gvars, fvars, due, draftStatus, channel, schedule, safe_mode, logs, idem,
                   quota, usage, sent, sendCalls, call, returns>>

InitRate ==
    /\ InitGenWith(NoStores, NoRender)
    /\ gquota.service = "NoopQuotaService"

\* concurrent ensure_can_publish calls for one project, time passing at any point
NextRate ==
    \/ \E p \in GProcs : RateIncr(p)
    \/ \E p \in GProcs : RateExpire(p)
    \/ \E p \in GProcs : RateTtl(p)
    \/ \E t \in RateInstants : RateTick(t)

SpecRate == InitRate /\ [][NextRate]_vars

\* ------------------------------------------------------------ usage counters
MaxUsage == 3

UsageFields == {"drafts_generated", "posts_published", "llm_calls", "tokens_est"}

\* the amounts the services pass: a generated draft with its two backend calls (as in
\* test_usage.py), a publication, one backend call
UsageAmounts ==
    { [drafts_generated |-> 1, posts_published |-> 0, llm_calls |-> 2, tokens_est |-> 10],
      [drafts_generated |-> 0, posts_published |-> 1, llm_calls |-> 0, tokens_est |-> 5],
      [drafts_generated |-> 0, posts_published |-> 0, llm_calls |-> 1, tokens_est |-> 3] }

ZeroUsage == [f \in UsageFields |-> 0]

\* usage_counters.py lines 15-21: the rows of the (project, day) pair
get_by_project_day == { i \in 1..Len(urows) : TRUE }

\* uq_usage_project_day of migration 0008
UsageViolation == urows # << >>

\* the increment call of process p ends
UDone(p, c, err) ==
    /\ gcall' = [gcall EXCEPT ![p] = GIdle]
    /\ greturns' = Append(greturns, [kind |-> "increment", amounts |-> c.amounts,
                                     found |-> c.found, read |-> c.read,
                                     err |-> err])

\* usage_counters.py lines 32-46: the session loads the row, or makes a new object with
\* zeros, and adds the amounts to the loaded values
UsageLoad(p, amounts) ==
    /\ gcall[p].pc = "idle" /\ GenStarted < MaxUsage
    /\ UNCHANGED <<fvars, pvars, facts, drafts, gquota, gusage, greturns, stores, render, xvars>>
    /\ gcall' = [gcall EXCEPT ![p] =
          [pc |-> "commit", amounts |-> amounts,
           found |-> get_by_project_day # {},
           read |-> IF get_by_project_day = {} THEN ZeroUsage
                    ELSE urows[CHOOSE i \in get_by_project_day : TRUE]]]

\* usage_counters.py lines 47-49: commit flushes the new row (INSERT, rejected by the
\* unique constraint when a row has appeared) or an UPDATE that sets every changed
\* field to the value computed from the loaded one
UsageCommit(p) ==
    /\ gcall[p].pc = "commit"
    /\ UNCHANGED <<fvars, pvars, facts, drafts, gquota, gusage, stores, render, rate>>
    /\ LET c == gcall[p]
       IN IF ~c.found
             THEN IF UsageViolation
                     THEN UNCHANGED urows /\ UDone(p, c, "IntegrityError")
                     ELSE urows' = Append(urows, c.amounts) /\ UDone(p, c, "")
             ELSE /\ urows' = [urows EXCEPT ![1] =
                                 [f \in UsageFields |->
                                     IF c.amounts[f] # 0 THEN c.read[f] + c.amounts[f]
                                     ELSE urows[1][f]]]
                  /\ UDone(p, c, "")

InitUsage ==
    /\ InitGenWith(NoStores, NoRender)
    /\ gquota.service = "NoopQuotaService"

\* increment calls of two sessions for one project and day, interleaved at their awaits
NextUsage ==
    \/ \E p \in GProcs, a \in UsageAmounts : UsageLoad(p, a)
    \/ \E p \in GProcs : UsageCommit(p)

SpecUsage == InitUsage /\ [][NextUsage]_vars

\* ------------------------------------------------------------ items left behind
MaxLeftFetches == 2

\* the worker's arguments: task queue, shared lock store, a limit of one item or the
\* configured one
LeftArgs == { [queue |-> TRUE, lock |-> "store", max_items |-> 1],
              [queue |-> TRUE, lock |-> "store", max_items |-> NULL] }

\* fetch runs of source 1 by the worker, two at a time, the lock expiring in between
NextLeft ==
    \/ \E p \in FProcs, f \in EnqueueFeeds, a \in LeftArgs :
          fetches < MaxLeftFetches /\ FetchStartWith(p, 1, "feed", f, a)
    \/ \E p \in FProcs : CreateItemCheckExternal(p)
    \/ \E p \in FProcs : CreateItemCheckLink(p)
    \/ \E p \in FProcs : CreateItemCommit(p)
    \/ \E p \in FProcs : FetchFinish(p)
    \/ \E t \in LockInstants : LockTick(t)

SpecLeft == InitFetch /\ [][NextLeft]_vars

\* ------------------------------------------------------------ scheduler beat
publish_due_period == 120          \* beat_schedule["publish-due-drafts"]["schedule"]

\* slots late in the local day, alone or in pairs
BeatSlots == { <<23, 50>>, <<23, 58>>, <<23, 59>> }
BeatSlotLists == { <<sl>> : sl \in BeatSlots } \cup { << <<23, 50>>, <<23, 58>> >> }

\* seconds of its period the beat may start at
BeatPhases == {0, 1, 30, 59, 60, 61, 90, 119}

\* 23:48 local on the first day
BeatStart == DaySeconds + (23 * 60 + 48) * 60

\* the occurrence of slot on the first day
SlotOccurrence(slot) == DaySeconds + SlotTime(slot)

\* celery_app.py lines 29-32 and publication_service.py lines 132-136: the beat fires
\* every 120 seconds, without end, and each tick resolves the due slot at its local
\* time. A day is a whole number of periods, so every day repeats the first one: the
\* clock is set back a day when it comes round to 23:48, and done tells that it has.
BeatTick ==
    LET out == _resolve_due_slot(due.now_local, due.slots)
        next == due.now_local + publish_due_period
        round == next >= BeatStart + DaySeconds
    IN /\ due' = [due EXCEPT !.out = out,
                             !.seen = IF out = NULL THEN @ ELSE @ \cup {out},
                             !.now_local = IF round THEN next - DaySeconds ELSE next,
                             !.done = @ \/ round]
    /\ UNCHANGED <<gvars, fvars, now, draftStatus, channel, schedule, safe_mode, logs, idem, quota,
                   usage, sent, sendCalls, call, returns>>

InitBeat ==
    /\ now = 79080
    /\ draftStatus = [d \in Drafts |-> "ready"]
    /\ schedule = NoSchedule /\ safe_mode = FALSE /\ channel = "connected"
    /\ logs = << >>
    /\ idem = [d \in DraftIds |-> 0]
    /\ quota = QuotaInit("QuotaService")
    /\ usage = [d \in Days |-> 0]
    /\ sent = << >>
    /\ sendCalls = [d \in Drafts |-> 0]
    /\ call = [p \in Procs |-> Idle]
    /\ returns = << >>
    /\ FetchStores
    /\ GenStores
    /\ \E sl \in BeatSlotLists, ph \in BeatPhases :
          due = [slots |-> sl, now_local |-> BeatStart + ph, out |-> NULL, done |-> FALSE,
                 seen |-> {}]

NextBeat == BeatTick

\* the beat keeps firing
SpecBeat == InitBeat /\ [][NextBeat]_vars /\ WF_vars(BeatTick)

\* ------------------------------------------------------------ ticks in one window
\* Scheduler ticks from a due slot on, for a schedule that allows two posts a day, the
\* channel connected; the worker builds the service with QuotaService when Redis is
\* there and without a quota service otherwise (tasks.py lines 197-205).
InitWindow ==
    /\ now = 79200
    /\ draftStatus \in [Drafts -> {"new", "ready"}]
    /\ schedule = Schedule(TRUE, 2) /\ safe_mode = FALSE /\ channel = "connected"
    /\ \E q \in {"QuotaService", "NoopQuotaService"} : quota = QuotaInit(q)
    /\ InitStores

NextWindow ==
    \/ AllIdle /\ Started < MaxCalls /\ PublishDueSelect(1)
    \/ StepDue(1)
    \/ StepLog(1)
    \/ AllIdle /\ AdvanceClock

SpecWindow == InitWindow /\ [][NextWindow]_vars

\* ------------------------------------------------------------ admin publish route
MaxAdmin == 2

\* api/routes.py lines 123-138 with publication_service.py lines 51 and 56-58: the
\* route builds a PublicationService for the request with no idempotency store, so
\* the service makes an InMemoryIdempotencyStore of its own, an empty map, and
\* publish_draft tries the key publish:{draft_id} in it; the map goes with the request
AdminPublishDraft(p, d) ==
    /\ call[p].pc = "idle" /\ Started < MaxAdmin
    /\ LET store == [k \in DraftIds |-> 0]
           held == store[d] > now
           c == [Idle EXCEPT !.op = "publish_draft", !.draft = d, !.at = now,
                              !.held = held, !.haslog = (LogsOfDraft(d) # {}),
                              !.chan = channel, !.nlogs0 = Len(logs),
                              !.u0 = usage[_today_utc(now)],
                              !.st0 = IF d \in Drafts THEN draftStatus[d] ELSE ""]
       IN call' = [call EXCEPT ![p] = [c EXCEPT !.pc = IF held THEN "pd_existing"
                                                                ELSE "pd_load"]]
    /\ UNCHANGED <<gvars, fvars, due, now, draftStatus, channel, schedule, safe_mode, logs,
                   idem, quota, usage, sent, sendCalls, returns>>

\* the admin API of one process: no schedule, the channel connected, NoopQuotaService
InitAdmin ==
    /\ now = 79080
    /\ draftStatus \in [Drafts -> {"new", "ready"}]
    /\ schedule = NoSchedule /\ safe_mode = FALSE /\ channel = "connected"
    /\ quota = QuotaInit("NoopQuotaService")
    /\ InitStores

\* requests to the route, served concurrently by the event loop
NextAdmin ==
    \/ \E p \in Procs, d \in DraftIds : AdminPublishDraft(p, d)
    \/ \E p \in Procs : PublishDraftLoad(p)
    \/ \E p \in Procs : PublishDraftQuota(p)
    \/ \E p \in Procs, o \in SendOutcomes : PublishDraftSend(p, o)
    \/ \E p \in Procs : StepLog(p)

SpecAdmin == InitAdmin /\ [][NextAdmin]_vars

\* ------------------------------------------------------------ publish request
MaxHandled == 3

\* a call record of the bot handler or of the worker task for draft d
RequestCall(op, d) ==
    [Idle EXCEPT !.op = op, !.draft = d, !.at = now, !.held = IdemHeld(d),
                 !.haslog = (LogsOfDraft(d) # {}), !.chan = channel, !.nlogs0 = Len(logs),
                 !.st0 = IF d \in Drafts THEN draftStatus[d] ELSE "",
                 !.u0 = usage[_today_utc(now)]]

\* router.py lines 931-949: the handler loads the draft and passes the publishes quota
PublishHandlerStart(p, d) ==
    /\ call[p].pc = "idle" /\ Started < MaxHandled
    /\ UNCHANGED <<gvars, fvars, due, now, draftStatus, channel, schedule, safe_mode, logs,
                   idem, usage, sent, sendCalls>>
    /\ LET c == RequestCall("publish_draft_handler", d)
       IN IF d \notin Drafts
             THEN UNCHANGED quota /\ Finish(p, c, "answer", "draft not found", NULL, NULL)
             ELSE /\ quota' = ensure_can_publish
                  /\ IF QuotaExceeded
                        THEN Finish(p, c, "answer", "QuotaExceededError", NULL, NULL)
                        ELSE /\ call' = [call EXCEPT ![p] = [c EXCEPT !.pc = "h_acquire"]]
                             /\ UNCHANGED returns

\* router.py lines 951-957: the handler takes the key publish:{draft_id} for 24 hours
\* and puts the publish task on the queue, or answers that a publish is running
PublishHandlerAcquire(p) ==
    /\ call[p].pc = "h_acquire"
    /\ UNCHANGED <<gvars, sources, failures, items, fcall, flast, fetches, batch, genlock,
                   due, now, draftStatus, channel, schedule, safe_mode, logs, quota, usage,
                   sent, sendCalls>>
    /\ LET d == call[p].draft
       IN IF IdemHeld(d)
             THEN /\ UNCHANGED <<idem, enqueued>>
                  /\ Finish(p, call[p], "answer", "publish already running", NULL, NULL)
             ELSE /\ idem' = IdemAcquire(d)
                  /\ enqueued' = Append(enqueued, [task |-> "publish_draft", draft |-> d,
                                                   at |-> now])
                  /\ Finish(p, call[p], "enqueued", "", NULL, NULL)

\* tasks.py lines 140-184: a worker takes the publish task and builds the service with
\* rate_limiter=..., a keyword PublicationService.__init__ (publication_service.py
\* lines 37-44) does not have: TypeError, before publish_draft is called
PublishDraftTask(p) ==
    /\ call[p].pc = "idle" /\ enqueued # << >>
    /\ UNCHANGED <<gvars, sources, failures, items, fcall, flast, fetches, batch, genlock,
                   due, now, draftStatus, channel, schedule, safe_mode, logs, idem, quota,
                   usage, sent, sendCalls>>
    /\ enqueued' = Tail(enqueued)
    /\ Finish(p, RequestCall("publish_draft_task", Head(enqueued).draft),
              "raise", "TypeError", NULL, NULL)

\* a bot and a worker sharing the Redis stores, the channel connected
InitHandler ==
    /\ now = 79080
    /\ draftStatus \in [Drafts -> {"needs_approval", "ready"}]
    /\ schedule = NoSchedule /\ safe_mode = FALSE /\ channel = "connected"
    /\ \E q \in {"QuotaService", "NoopQuotaService"} : quota = QuotaInit(q)
    /\ InitStores

\* publish requests of the bot and the worker's tasks, interleaved
NextHandler ==
    \/ \E p \in Procs, d \in DraftIds : PublishHandlerStart(p, d)
    \/ \E p \in Procs : PublishHandlerAcquire(p)
    \/ \E p \in Procs : PublishDraftTask(p)

SpecHandler == InitHandler /\ [][NextHandler]_vars

\* ------------------------------------------------------------ quota service
MaxEnsure == 3
sources_limit == 10

\* the ensure call of process p ends, raising QuotaExceededError or not
QDone(p, c, raised) ==
    /\ gcall' = [gcall EXCEPT ![p] = GIdle]
    /\ greturns' = Append(greturns, [kind |-> "ensure", q |-> c.q, value |-> c.value,
                                     at |-> c.at, raised |-> raised, conc |-> c.conc])

\* some other process is inside an ensure call of `kind`
EnsuringToo(p, kind) ==
    \E o \in GProcs : o # p /\ gcall[o].pc = "expire" /\ gcall[o].q = kind

\* an INCR that is a read followed by a write: a caller that overlaps another gets the
\* value the other got
EnsureIncr_LostUpdate(p, kind) ==
    /\ gcall[p].pc = "idle" /\ GenStarted < MaxEnsure
    /\ UNCHANGED <<fvars, pvars, facts, drafts, gusage, greturns, stores, render, xvars>>
    /\ LET v == IF EnsuringToo(p, kind) THEN gquota.keys[kind].value ELSE GQuotaIncr(kind)
       IN /\ gquota' = [gquota EXCEPT !.keys[kind] =
                          [value |-> v, expires_at |-> IF v = 1 THEN 0 ELSE @.expires_at]]
          /\ gcall' = [gcall EXCEPT ![p] =
                          [pc |-> "expire", q |-> kind, value |-> v, at |-> now,
                           conc |-> EnsuringToo(p, kind)]]

\* quota.py line 56: INCR adds one to the key, or creates it with value 1 and no TTL
\* when it is absent or has expired
EnsureIncr(p, kind) ==
    /\ gcall[p].pc = "idle" /\ GenStarted < MaxEnsure
    /\ UNCHANGED <<fvars, pvars, facts, drafts, gusage, greturns, stores, render, xvars>>
    /\ LET v == GQuotaIncr(kind)
       IN /\ gquota' = [gquota EXCEPT !.keys[kind] =
                          [value |-> v, expires_at |-> IF v = 1 THEN 0 ELSE @.expires_at]]
          /\ gcall' = [gcall EXCEPT ![p] =
                          [pc |-> "expire", q |-> kind, value |-> v, at |-> now,
                           conc |-> EnsuringToo(p, kind)]]

\* quota.py lines 57-60: EXPIRE to the end of the UTC day when INCR answered 1, then
\* the comparison with the limit
EnsureExpire(p) ==
    /\ gcall[p].pc = "expire"
    /\ UNCHANGED <<fvars, pvars, facts, drafts, gusage, stores, render, xvars>>
    /\ LET c == gcall[p]
       IN /\ gquota' = IF c.value = 1
                          THEN [gquota EXCEPT !.keys[c.q].expires_at =
                                                  now + _ttl_to_end_of_day(now)]
                          ELSE gquota
          /\ QDone(p, c, c.value > QuotaLimit(c.q))

\* quota.py lines 72-74: the sources check reads the count it is given
ensure_can_add_source(p, current_sources) ==
    /\ gcall[p].pc = "idle" /\ GenStarted < MaxEnsure
    /\ UNCHANGED <<fvars, pvars, facts, drafts, gquota, gusage, stores, render, xvars>>
    /\ QDone(p, [q |-> "sources", value |-> current_sources, at |-> now, conc |-> FALSE],
             current_sources >= sources_limit)

\* the quota checks are observed late on one UTC day and on the two days after it
QuotaInstants == {79080, 90000, 180000}

\* time passes, also between the INCR and the EXPIRE of a call
QuotaTick(t) ==
    /\ t > now
    /\ now' = t
    /\ UNCHANGED <<gvars, fvars, due, draftStatus, channel, schedule, safe_mode, logs, idem,
                   quota, usage, sent, sendCalls, call, returns>>

\* the generator at rest, the quota backend a QuotaService over one Redis
InitQuota ==
    /\ InitGen
    /\ gquota.service = "QuotaService"

\* concurrent ensure calls of every kind for one project
NextQuota ==
    \/ \E p \in GProcs, k \in QuotaKinds : EnsureIncr(p, k)
    \/ \E p \in GProcs : EnsureExpire(p)
    \/ \E p \in GProcs, n \in {sources_limit - 1, sources_limit} : ensure_can_add_source(p, n)
    \/ \E t \in QuotaInstants : QuotaTick(t)

SpecQuota == InitQuota /\ [][NextQuota]_vars

TypeOK ==
    /\ now \in Instants
    /\ draftStatus \in [Drafts -> DraftStatuses]
    /\ channel \in {"none", "pending", "connected", "error"}
    /\ Len(returns) <= MaxCalls + ConcCalls

\* -------------------------------------------------------------- properties
\* finished publish_draft calls on draft d, as indices into returns
DraftCalls(d) ==
    { i \in 1..Len(returns) : returns[i].op = "publish_draft" /\ returns[i].draft = d }

SetMin(S) == CHOOSE x \in S : \A y \in S : x <= y

\* call j on draft d came while the key taken by the earlier call i was still held
UnderLease(d, i, j) ==
    /\ i \in DraftCalls(d) /\ j \in DraftCalls(d) /\ i < j
    /\ ~returns[i].held /\ returns[i].chan = "connected"
    /\ returns[j].held /\ returns[j].at < returns[i].at + PUBLISH_TTL

Delivering(d) ==
    { p \in Procs : /\ call[p].op = "publish_draft" /\ call[p].draft = d
                    /\ call[p].pc \in {"pd_load", "pd_quota", "pd_send", "cl_check", "cl_insert"} }

InProgress == "PublicationError: Publish already in progress"

\* C2: of concurrent publish_draft calls on one draft sharing the idempotency store,
\* at most one is in its delivery section at any time; a call that found the key
\* held never calls send_post and either returns the stored log or fails with
\* "Publish already in progress"; send_post is accepted at most once for the draft.
C2_OneDelivery ==
    /\ \A d \in DraftIds : Cardinality(Delivering(d)) <= 1
    /\ \A p \in Procs : (call[p].op = "publish_draft" /\ call[p].held) =>
            call[p].pc = "pd_existing" /\ call[p].sends = 0
    /\ \A i \in 1..Len(returns) : (returns[i].op = "publish_draft" /\ returns[i].held) =>
            /\ returns[i].sends = 0
            /\ \/ returns[i].kind = "log" /\ logs[returns[i].log].draft_id = returns[i].draft
               \/ returns[i].kind = "raise" /\ returns[i].err = InProgress
    /\ \A d \in Drafts :
            Cardinality({ k \in 1..Len(sent) :
                sent[k].draft = d /\ sent[k].op = "publish_draft" }) <= 1

\* one call is about to send while the other, on the same draft, was turned away
C2_Witness ==
    \E d \in Drafts, p \in Procs, i \in 1..Len(returns) :
        /\ call[p].op = "publish_draft" /\ call[p].draft = d /\ call[p].pc = "pd_send"
        /\ returns[i].op = "publish_draft" /\ returns[i].draft = d /\ returns[i].held
        /\ returns[i].kind = "raise" /\ returns[i].err = InProgress

\* both calls finished: one delivered, the other joined its log
C2_WitnessJoin ==
    \E d \in Drafts, i, j \in 1..Len(returns) :
        /\ returns[i].op = "publish_draft" /\ returns[i].draft = d /\ ~returns[i].held
        /\ returns[i].status = "published"
        /\ returns[j].op = "publish_draft" /\ returns[j].draft = d /\ returns[j].held
        /\ returns[j].kind = "log" /\ returns[j].log = returns[i].log

\* finished publish_due calls, as indices into returns
DueCalls == { i \in 1..Len(returns) : returns[i].op = "publish_due" }

\* C3 as stated: of repeated publish_due ticks inside one slot window, the first
\* delivers the ready draft and every later one returns the same PublicationLog
\* (same id) without calling send_post again.
C3_RepeatTick ==
    \A i, j \in DueCalls :
        ( /\ i < j
          /\ returns[i].kind = "log" /\ returns[i].status = "published" /\ returns[i].sends = 1
          /\ DueSlotUtc(schedule, returns[j].at) = returns[i].slot ) =>
            /\ returns[j].kind = "log"
            /\ returns[j].log = returns[i].log
            /\ returns[j].sends = 0

\* messages the channel accepted from publish_due for draft d and slot s
SentForSlot(d, s) ==
    { k \in 1..Len(sent) : sent[k].op = "publish_due" /\ sent[k].draft = d /\ sent[k].slot = s }

\* C4 as stated: two concurrent publish_due calls that resolve the same slot send the
\* selected draft at most once and leave at most one published log for (draft, slot).
C4_NoDuplicate ==
    \A d \in Drafts, s \in Instants :
        /\ Cardinality(SentForSlot(d, s)) <= 1
        /\ Cardinality({ i \in LogsOfDraftAndScheduled(d, s) : logs[i].status = "published" }) <= 1

\* day number, in the schedule's time zone, of UTC instant t
LocalDayOf(t) == LocalDate(t + UtcOffset(_safe_timezone(schedule.tz)))

\* ids of the scheduled logs among the first n whose slot lies in local day D
ScheduledInDay(D, n) ==
    { k \in 1..n : logs[k].scheduled_at # NULL /\ LocalDayOf(logs[k].scheduled_at) = D }

\* a tick is at its cap check with the local day of its start already full
AtCap(p) ==
    /\ call[p].op = "publish_due" /\ call[p].pc = "due_check"
    /\ Cardinality(ScheduledInDay(LocalDayOf(call[p].at), Len(logs))) >= schedule.per_day_limit

SlotOn(t, slot) ==
    IF slot[1] \in 0..23 /\ slot[2] \in 0..59
       THEN (t \div DaySeconds) * DaySeconds + 3600 * slot[1] + 60 * slot[2]
       ELSE NULL

\* the configured slots that are due at local time t: at or before t, at most 5 minutes
DueSlotsAt(t, slots) ==
    { s \in { SlotOn(t, slots[i]) : i \in DOMAIN slots } : s # NULL /\ s <= t /\ t - s <= 5 * 60 }

\* C6: slot resolution returns the latest configured slot s with s <= now and
\* now - s <= 5 minutes, and nothing when there is none; for slots [10:00, 14:00]
\* now = 10:02 resolves 10:00 and now = 14:06 resolves nothing.
C6_LatestDueSlot ==
    due.done =>
        LET D == DueSlotsAt(due.now_local, due.slots)
            midnight == (due.now_local \div DaySeconds) * DaySeconds
        IN /\ D = {} => due.out = NULL
           /\ D # {} => due.out \in D /\ \A s \in D : s <= due.out
           /\ due.slots = << <<10, 0>>, <<14, 0>> >> =>
                 /\ due.now_local = midnight + 36120 => due.out = midnight + 36000
                 /\ due.now_local = midnight + 50760 => due.out = NULL

\* 10:00 and 10:03 are both due at 10:04 and the later one, 10:03, is resolved
C6_Witness ==
    /\ due.done
    /\ due.slots = << <<10, 3>>, <<10, 0>> >>
    /\ due.now_local = DaySeconds + 36240
    /\ due.out = DaySeconds + 36180

\* no configured slot is due at UTC instant t in the schedule's zone
NoSlotDue(t) ==
    DueSlotsAt(t + UtcOffset(_safe_timezone(schedule.tz)), schedule.slots) = {}

\* the conditions under which a tick has nothing to do
NoOpCondition ==
    \/ ~schedule.exists
    \/ ~schedule.enabled
    \/ NoSlotDue(now)
    \/ channel # "connected"
    \/ \A d \in Drafts : draftStatus[d] # "ready"

\* process p starts a publish_due call in this step
TickStarts(p) ==
    /\ call[p].pc = "idle"
    /\ \/ call'[p].op = "publish_due"
       \/ /\ Len(returns') = Len(returns) + 1
          /\ returns'[Len(returns')].op = "publish_due"

C8_SafeModeBlocks ==
    \A i \in DueCalls :
        ( /\ safe_mode
          /\ schedule.exists /\ schedule.enabled /\ ~NoSlotDue(returns[i].at)
          /\ returns[i].chan = "connected"
          /\ returns[i].st0 = "ready" ) =>
            /\ returns[i].kind = "null"
            /\ returns[i].sends = 0
            /\ returns[i].st1 = "needs_approval"

PublicationErrors ==
    { InProgress, "PublicationError: Draft not found", "PublicationError: Channel not connected" }

\* publish_draft call i failed with PublicationError and touched nothing
FailsClean(i) ==
    /\ returns[i].kind = "raise" /\ returns[i].err \in PublicationErrors
    /\ returns[i].sends = 0
    /\ returns[i].nlogs1 = returns[i].nlogs0
    /\ returns[i].st1 = returns[i].st0

Ran(i) ==
    /\ returns[i].op = "publish_draft" /\ ~returns[i].held
    /\ returns[i].draft \in Drafts /\ returns[i].chan = "connected"

\* the call wrote exactly one log row, for its draft, with this status and error code
WroteLog(i, status, code) ==
    /\ returns[i].nlogs1 = returns[i].nlogs0 + 1
    /\ logs[returns[i].nlogs1].draft_id = returns[i].draft
    /\ logs[returns[i].nlogs1].status = status
    /\ logs[returns[i].nlogs1].error_code = code

QuotaRejected(i) == Ran(i) /\ returns[i].kind = "raise" /\ returns[i].err = "QuotaExceededError"

\* C11: when the publishes-per-day quota rejects a publish_draft call, send_post is
\* never called, the draft becomes failed, a log with status failed and error code
\* quota is written, and QuotaExceededError is raised to the caller.
C11_QuotaRejects ==
    \A i \in 1..Len(returns) : QuotaRejected(i) =>
        /\ returns[i].sends = 0
        /\ returns[i].st1 = "failed"
        /\ WroteLog(i, "failed", "quota")

\* every send_post attempt of the call failed with a transient error
Exhausted(i) ==
    /\ Ran(i) /\ Len(returns[i].outs) = max_retries + 1
    /\ \A k \in 1..Len(returns[i].outs) : returns[i].outs[k] = "TransientTelegramError"

\* the call returned a failed log that names this error
ReturnedFailed(i, code) ==
    /\ returns[i].kind = "log" /\ returns[i].status = "failed"
    /\ logs[returns[i].log].error_code = code

\* C12: publish_draft ends after at most max_retries+1 send_post attempts and at most
\* max_retries backoff sleeps, the k-th sleep lasting base*k; when every attempt fails
\* with a transient error the draft becomes failed and the returned log has status
\* failed and records the last transient error.
C12_BoundedRetries ==
    \A i \in 1..Len(returns) : returns[i].op = "publish_draft" =>
        /\ returns[i].sends <= max_retries + 1
        /\ Len(returns[i].sleeps) <= max_retries
        /\ \A k \in 1..Len(returns[i].sleeps) : returns[i].sleeps[k] = k
        /\ Exhausted(i) =>
              /\ returns[i].st1 = "failed"
              /\ ReturnedFailed(i, returns[i].last_exc)

PermanentErrors == {"ChannelForbiddenError", "ChannelNotFoundError"}

\* the last send_post attempt of the call failed with a permanent error
HitPermanent(i) ==
    /\ Ran(i) /\ returns[i].outs # <<>>
    /\ returns[i].outs[Len(returns[i].outs)] \in PermanentErrors

\* C13: when send_post fails with a permanent error (channel forbidden or not found),
\* publish_draft makes no further send_post attempt and no backoff sleep after it,
\* the draft becomes failed, and a failed log naming that error is returned.
C13_PermanentStops ==
    \A i \in 1..Len(returns) :
        /\ Ran(i) =>
              \A k \in 1..Len(returns[i].outs) :
                  returns[i].outs[k] \in PermanentErrors =>
                      /\ k = Len(returns[i].outs)
                      /\ Len(returns[i].sleeps) = k - 1
        /\ HitPermanent(i) =>
              /\ returns[i].st1 = "failed"
              /\ ReturnedFailed(i, returns[i].outs[Len(returns[i].outs)])

\* one transient error, then an accepted send
RetriedOnce(i) == Ran(i) /\ returns[i].outs = <<"TransientTelegramError", "ok">>

\* C14: when send_post fails once with a transient error and then succeeds
\* (max_retries >= 1), publish_draft makes exactly two send attempts with exactly one
\* backoff sleep between them, the draft becomes published, and the returned log
\* has status published with the second attempt's message id.
C14_RetryThenSuccess ==
    \A i \in 1..Len(returns) : RetriedOnce(i) =>
        /\ returns[i].sends = 2
        /\ Len(returns[i].sleeps) = 1
        /\ returns[i].st1 = "published"
        /\ returns[i].kind = "log" /\ returns[i].status = "published"
        /\ returns[i].msg = returns[i].sent_msg

\* the seconds a rate-limited answer asks the caller to wait (RetryAfterError.retry_after)
retry_after == 5

\* the first send_post attempt of the call was answered with RetryAfterError
RateLimitedFirst(i) ==
    /\ Ran(i) /\ returns[i].outs # <<>>
    /\ returns[i].outs[1] = "RetryAfterError"

\* C15: when send_post fails once with RetryAfterError(retry_after=n) and then
\* succeeds, publish_draft (max_retries=2) sleeps exactly once, for n seconds,
\* retries, and returns a log with status published; the rate-limited error is not
\* propagated to the caller and does not leave the draft unpublished.
C15_RetryAfter ==
    \A i \in 1..Len(returns) : RateLimitedFirst(i) =>
        /\ Len(returns[i].outs) >= 2
        /\ ~(returns[i].kind = "raise" /\ returns[i].err = "RetryAfterError")
        /\ returns[i].outs = <<"RetryAfterError", "ok">> =>
              /\ returns[i].sleeps = <<2 * retry_after>>
              /\ returns[i].kind = "log" /\ returns[i].status = "published"
              /\ returns[i].st1 = "published"

\* a call that was rate limited on its first attempt has ended
C15_Witness == \E i \in 1..Len(returns) : RateLimitedFirst(i)

\* send_post accepted the post in this publish_draft call
Delivered(i) == returns[i].op = "publish_draft" /\ returns[i].sent_msg # NULL

\* C16: each successful delivery by publish_draft sets the draft to published,
\* persists a log with status published, the message id and the publish timestamp,
\* and increases the day's posts_published by exactly 1; calls that fail or are
\* answered from an existing log do not change posts_published.
C16_DeliveryBookkeeping ==
    \A i \in 1..Len(returns) : returns[i].op = "publish_draft" =>
        /\ Delivered(i) =>
              /\ returns[i].st1 = "published"
              /\ WroteLog(i, "published", "")
              /\ logs[returns[i].nlogs1].tg_message_id = returns[i].sent_msg
              /\ logs[returns[i].nlogs1].published_at = returns[i].at
              /\ returns[i].u1 = returns[i].u0 + 1
        /\ ~Delivered(i) => returns[i].u1 = returns[i].u0

\* a delivery to a draft whose earlier publication had failed
C16_Witness ==
    \E i \in 1..Len(returns) :
        /\ Delivered(i) /\ returns[i].haslog /\ returns[i].st0 = "failed"

\* ---- source fetcher: items, failures and backoff ----

\* two stored items of one source share their external_id or their link
DuplicateItems ==
    \E k, l \in ItemIds :
        /\ k # l /\ items[k].source_id = items[l].source_id
        /\ items[k].external_id = items[l].external_id \/ items[k].link = items[l].link

\* process p is about to commit a row that a concurrent run has stored meanwhile
LostRace(p) == fcall[p].pc = "commit" /\ ItemViolation(CurrentItem(p))

\* process p is at an entry that collides with a stored item
Colliding(p) ==
    /\ fcall[p].pc \in {"ext", "link", "commit"}
    /\ ItemViolation(CurrentItem(p))

\* a step of process p inside create_item keeps the table and stays in the loop
SkipsQuietly(p) ==
    (Colliding(p) /\ fcall'[p] # fcall[p]) =>
        /\ items' = items
        /\ fcall'[p].pc \in {"link", "commit", "ext", "finish"}
        /\ fcall'[p].saved = fcall[p].saved
        /\ fcall'[p].pc \in {"ext", "finish"} => fcall'[p].idx = fcall[p].idx + 1

FailedFetch == flast.kind # "none" /\ flast.source \in Sources /\ flast.result # "feed"

\* (source.consecutive_failures or 0)
OrZero(n) == IF n = NULL THEN 0 ELSE n

\* C18: a failed fetch of an existing source never raises: it returns (source, 0),
\* increments consecutive_failures by one, records the error message, and sets the
\* status to broken if the new counter has reached source_fail_threshold, else to
\* error; so after N = source_fail_threshold consecutive failures the source is
\* broken with consecutive_failures = N.
C18_FailedFetch ==
    FailedFetch =>
        /\ flast.kind = "return" /\ flast.saved = 0
        /\ flast.cf1 = OrZero(flast.cf0) + 1
        /\ flast.err1 = flast.result
        /\ flast.st1 = IF flast.cf1 >= source_fail_threshold THEN "broken" ELSE "error"

\* a fetch of a source that was never fetched before has failed
C18_Witness == FailedFetch /\ flast.st0 = "pending" /\ flast.cf0 = NULL

\* the consecutive_failures of source s as the session of process 1 holds it; NULL
\* when the loaded instance has no such attribute (the table column keeps its default)
consecutive_failures(s) == failures[1][s]

\* the call that finished last was a fetch of an existing source that succeeded
SucceededFetch == flast.kind = "return" /\ flast.source \in Sources /\ flast.result = "feed"

\* C19: in every reachable state a source is broken exactly when its
\* consecutive_failures is at least source_fail_threshold; any successful fetch
\* sets consecutive_failures to 0 and the status to ok and clears last_error.
C19_BrokenIff ==
    /\ \A s \in Sources :
          sources[s].status = "broken" <=>
              (consecutive_failures(s) # NULL /\ consecutive_failures(s) >= source_fail_threshold)
    /\ SucceededFetch => flast.cf1 = 0 /\ flast.st1 = "ok" /\ flast.err1 = NULL

\* a source is broken and a later session has loaded it
C19_Witness ==
    \E s \in Sources : sources[s].status = "broken" /\ consecutive_failures(s) = NULL

\* the fetch that finished last was started by the batch driver on a broken source
BatchRetry == flast.kind # "none" /\ flast.in_batch /\ flast.st0 = "broken"

\* C20: the batch driver never fetches a broken source while less than the backoff
\* window (3 x fetch_interval_min minutes) has elapsed since its last fetch attempt,
\* and fetches it on the first batch run after the window has elapsed, so a broken
\* source is eventually retried and returns to ok on success.
C20_Backoff ==
    /\ BatchRetry =>
          flast.at - flast.lf0 >= sources[flast.source].fetch_interval_min * 3 * 60
    /\ batch.last.kind # "none" => batch.last.due0 \subseteq batch.last.fetched
    /\ (BatchRetry /\ flast.result = "feed") => flast.kind = "return" /\ flast.st1 = "ok"

\* a batch run has retried a broken source after its window, and the fetch succeeded
C20_Witness == BatchRetry /\ flast.result = "feed" /\ flast.st1 = "ok"

\* ------------------------------------------------------------ generation trigger
\* messages of one fetch run on the task queue
EnqueuedBy(run) == { k \in 1..Len(enqueued) : enqueued[k].run = run }

\* two runs that took the lock from the shared store enqueued less than a TTL apart
EnqueuedUnderLock ==
    \E i, j \in 1..Len(enqueued) :
        /\ enqueued[i].lock = "store" /\ enqueued[j].lock = "store"
        /\ enqueued[i].run # enqueued[j].run
        /\ enqueued[i].at <= enqueued[j].at
        /\ enqueued[j].at - enqueued[i].at < generate_lock_ttl

GRet == 1..Len(greturns)

\* two post_drafts rows share a draft hash
DuplicateDrafts ==
    \E i, j \in DraftRowIds : i # j /\ drafts[i].draft_hash = drafts[j].draft_hash

\* call k returned the one stored draft that carries its hash
ReturnedStoredDraft(k) ==
    /\ greturns[k].row \in DraftRowIds
    /\ get_by_hash(greturns[k].hash) = {greturns[k].row}

\* calls i and j for the same hash both got past the duplicate checks before a draft
\* was stored, and both returned
RacedInsert(i, j) ==
    /\ i # j /\ greturns[i].hash = greturns[j].hash
    /\ greturns[i].kind = "return" /\ greturns[j].kind = "return"
    /\ greturns[i].n0 = 0 /\ greturns[j].n0 = 0

MetDuplicate(k) == greturns[k].dup0

RejectedAsDuplicate(k) ==
    /\ greturns[k].kind = "raise" /\ greturns[k].err = "DraftGenerationError"
    /\ greturns[k].cause \in {"Duplicate draft detected", "Duplicate content detected"}
    /\ greturns[k].n1 = greturns[k].n0

\* C23 as stated: a generate_draft call that meets a draft of the duplicate window with
\* its content hash or its draft hash raises DraftGenerationError and creates no draft
C23_DuplicateRaisesGenerationError ==
    \A k \in GRet : MetDuplicate(k) => RejectedAsDuplicate(k)

\* C23: a generate_draft call that meets a draft of the duplicate window with its
\* content hash or its draft hash creates no draft; it raises DraftGenerationError if
\* it got past the drafts quota check, which runs first, and QuotaExceededError if not;
\* after one successful and one rejected generation exactly one draft exists
C23_DuplicateRejected ==
    /\ \A k \in GRet :
          MetDuplicate(k) =>
             /\ greturns[k].kind = "raise" /\ greturns[k].n1 = greturns[k].n0
             /\ greturns[k].admitted => RejectedAsDuplicate(k)
             /\ ~greturns[k].admitted => greturns[k].err = "QuotaExceededError"
    /\ Len(greturns) >= 2 /\ greturns[1].kind = "return" /\ MetDuplicate(2) =>
          greturns[2].n1 = 1

\* a draft of item 1 exists and a call for item 2, which carries the same content, was
\* rejected as a duplicate
C23_Witness ==
    \E k \in GRet :
        /\ greturns[k].item = 2 /\ MetDuplicate(k) /\ RejectedAsDuplicate(k)
        /\ \E d \in DraftRowIds : drafts[d].source_item_id = 1

\* calls before call k that passed the drafts quota check on the UTC day of call k
AdmittedBefore(k) ==
    Cardinality({ j \in 1..(k - 1) :
                    /\ greturns[j].admitted
                    /\ _today_utc(greturns[j].at) = _today_utc(greturns[k].at) })

RejectedByDraftsQuota(k) ==
    /\ ~greturns[k].admitted
    /\ greturns[k].kind = "raise" /\ greturns[k].err = "QuotaExceededError"
    /\ greturns[k].n1 = greturns[k].n0

BackendCalls(r) == { k \in 1..Len(r.events) : r.events[k] = "call" }

\* every backend call of the call came right after a passed llm_calls check
CheckedFirst(r) == \A k \in BackendCalls(r) : k > 1 /\ r.events[k - 1] = "check"

\* a successful call used two units without cached facts, one with, and one draft
SuccessUnits(r) ==
    r.kind = "return" =>
        /\ r.llm1 - r.llm0 = IF r.cached THEN 1 ELSE 2
        /\ r.dg1 - r.dg0 = 1

LlmQuotaExhausted(i) ==
    /\ greturns[i].kind = "raise" /\ greturns[i].cause = "QuotaExceededError"
    /\ greturns[i].service = "QuotaService"

\* C27: a generate_draft call that meets the exhausted llm_calls quota raises
\* QuotaExceededError, not the generic backend failure, and persists no draft
C27_LlmQuotaTyped ==
    \A i \in GRet :
        LlmQuotaExhausted(i) =>
            /\ greturns[i].err = "QuotaExceededError"
            /\ greturns[i].n1 = greturns[i].n0

\* a call was admitted by the drafts quota and then stopped by the llm_calls quota
C27_Witness ==
    \E i \in GRet : LlmQuotaExhausted(i) /\ greturns[i].admitted /\ greturns[i].n1 = greturns[i].n0

\* ------------------------------------------------------------ post rendering
\* C28: for every backend output, link and max_post_len > 0 the rendered text has at
\* most max_post_len characters, and it contains the complete link whenever the link
\* has at most max_post_len characters
C28_FitsAndLinks ==
    render.done =>
        /\ Len(render.text) <= render.max_post_len
        /\ Len(render.link) <= render.max_post_len => Contains(render.text, render.link)

\* the output did not hold the link and was longer than the room the link leaves: the
\* body was trimmed and the text is exactly max_post_len long, ending with the link
C28_Witness ==
    /\ render.done
    /\ render.link # << >> /\ Len(render.link) + 1 < render.max_post_len
    /\ ~Contains(normalize_text(GatewayContent(render.output, render.max_post_len)),
                 render.link)
    /\ Len(normalize_text(GatewayContent(render.output, render.max_post_len)))
          > render.max_post_len - Len(render.link) - 1
    /\ Len(render.text) = render.max_post_len
    /\ SubSeq(render.text, Len(render.text) - Len(render.link) + 1, Len(render.text))
          = render.link

\* ------------------------------------------------------------ acquire stores
\* C29: an acquire returns true iff the key is absent or its TTL has run out, and then
\* sets the expiry to now + ttl; a refused acquire leaves the expiry as it was; between
\* a successful acquire and its expiry no other acquire of the key returns true; a
\* manual generate request enqueues its item iff it got the cooldown key
C29_SetIfAbsent ==
    /\ \A i \in GRet :
          /\ greturns[i].ok <=> greturns[i].exp0 <= greturns[i].at
          /\ greturns[i].exp1 = IF greturns[i].ok THEN greturns[i].at + greturns[i].ttl
                                ELSE greturns[i].exp0
          /\ greturns[i].enq = IF greturns[i].via = "handler" /\ greturns[i].ok THEN 1 ELSE 0
    /\ \A i, j \in GRet :
          /\ i < j /\ greturns[i].store = greturns[j].store /\ greturns[i].ok
          /\ greturns[j].at < greturns[i].at + greturns[i].ttl
          => ~greturns[j].ok
    /\ Len(enqueued) = Cardinality({ i \in GRet : greturns[i].via = "handler" /\ greturns[i].ok })

\* a manual request took the cooldown key, a second one inside the window was refused
\* without moving the expiry and without enqueuing, and a third one at the end of the
\* window took the key again
C29_Witness ==
    \E i, j, k \in GRet :
        /\ i < j /\ j < k
        /\ \A r \in {i, j, k} : greturns[r].via = "handler"
        /\ greturns[i].ok /\ greturns[i].enq = 1
        /\ ~greturns[j].ok /\ greturns[j].at > greturns[i].at /\ greturns[j].enq = 0
        /\ greturns[j].exp1 = greturns[i].exp1
        /\ greturns[k].ok /\ greturns[k].at = greturns[i].at + COOLDOWN_TTL_SECONDS
        /\ Len(enqueued) = 2

\* ------------------------------------------------------------ publication log writes
\* no two log rows share (draft, scheduled_at), a null scheduled_at included
UniqueLogs ==
    \A i, j \in LogIds :
        logs[i].draft_id = logs[j].draft_id /\ logs[i].scheduled_at = logs[j].scheduled_at
        => i = j

\* a call's log write met a row stored after its lookup and was rejected by the store
CollidedWrite(k) == returns[k].kind = "raise" /\ returns[k].err = "IntegrityError"

\* C30: after any interleaving of concurrent log writes there is at most one row per
\* (draft, scheduled_at) and at most one row per draft with scheduled_at null, and a
\* write that collides with a stored row returns that row instead of raising
C30_LogWriteRecovers ==
    /\ UniqueLogs
    /\ \A k \in 1..Len(returns) : ~CollidedWrite(k)

\* two concurrent calls wrote a log for one draft and slot: one row is stored for it
\* and the second write has run into the unique constraint
C30_Witness ==
    /\ UniqueLogs
    /\ \E k \in 1..Len(returns) :
          /\ CollidedWrite(k)
          /\ \E i \in LogIds : logs[i].draft_id = returns[k].draft
          /\ returns[k].nlogs1 = 1

\* ------------------------------------------------------------ quota service
\* ensure calls of `kind` that returned without raising and incremented on UTC day d
PassedOn(kind, d) ==
    { i \in GRet : /\ greturns[i].q = kind /\ ~greturns[i].raised
                   /\ _today_utc(greturns[i].at) = d }

\* no caller of `kind` is between its INCR and its EXPIRE
Settled(kind) == \A p \in GProcs : ~(gcall[p].pc = "expire" /\ gcall[p].q = kind)

AdmittedInWindow(g) == { i \in GRet : greturns[i].gen = g /\ ~greturns[i].raised }

\* C31: the limiter admits at most publishes_per_hour calls per window of the key; a call
\* is rejected iff its increment went beyond the limit, and its retry_after is the TTL
\* the key has left when it is positive and the whole window of 3600 seconds otherwise;
\* a call that finds the key expired starts a new window and is admitted
C31_RateLimit ==
    /\ \A g \in 1..MaxRate : Cardinality(AdmittedInWindow(g)) <= publishes_per_hour
    /\ \A i \in GRet :
          /\ greturns[i].raised <=> greturns[i].value > publishes_per_hour
          /\ greturns[i].raised =>
                /\ greturns[i].retry_after =
                      IF greturns[i].ttl > 0 THEN greturns[i].ttl ELSE window_seconds
                /\ greturns[i].retry_after > 0 /\ greturns[i].retry_after <= window_seconds
          /\ greturns[i].exp0 # 0 /\ greturns[i].exp0 <= greturns[i].at =>
                greturns[i].value = 1 /\ ~greturns[i].raised

\* a call in the middle of a full window was rejected with half the window as
\* retry_after, and a call at the end of the window was admitted again
C31_Witness ==
    \E i, j \in GRet :
        /\ greturns[i].raised /\ greturns[i].retry_after = 1800
        /\ greturns[j].gen = greturns[i].gen + 1 /\ ~greturns[j].raised
        /\ greturns[j].at = greturns[i].fin + 1800

\* ------------------------------------------------------------ usage counters
\* the sum of field f over the amounts passed to the first n finished increment calls
RECURSIVE PassedSum(_, _)
PassedSum(f, n) == IF n = 0 THEN 0 ELSE greturns[n].amounts[f] + PassedSum(f, n - 1)

\* C32: after any interleaving of increment calls for one (project, day) exactly one
\* counter row exists for the pair and each of its four fields is the sum of the amounts
\* passed to all the calls
C32_Additive ==
    GenIdle /\ greturns # << >> =>
        /\ Len(urows) = 1
        /\ \A f \in UsageFields : urows[1][f] = PassedSum(f, Len(greturns))

\* two overlapping increments added to one field of the stored row and one of the
\* additions is missing from it
C32_Witness ==
    /\ GenIdle /\ Len(urows) = 1
    /\ \A k \in GRet : greturns[k].err = ""
    /\ \E f \in UsageFields : urows[1][f] < PassedSum(f, Len(greturns))

\* ------------------------------------------------------------ key after a failed publish
\* call j repeats, inside the key's TTL and with the channel now connected, the
\* publish_draft of call i that failed on the channel binding
RetryAfterChannelFix(i, j) ==
    /\ i < j
    /\ returns[i].op = "publish_draft" /\ returns[j].op = "publish_draft"
    /\ returns[i].draft \in Drafts /\ returns[j].draft = returns[i].draft
    /\ returns[i].err = "PublicationError: Channel not connected"
    /\ returns[j].chan = "connected"
    /\ returns[j].at < returns[i].at + PUBLISH_TTL

\* C33: a publish_draft that failed because the channel was not connected does not leave
\* the idempotency key in the way: the next publish_draft for the draft inside the
\* 24-hour TTL, with the channel connected, attempts the delivery and is not answered
\* "Publish already in progress"
C33_KeyNotBlocking ==
    \A i, j \in 1..Len(returns) :
        RetryAfterChannelFix(i, j) =>
            /\ returns[j].err # "PublicationError: Publish already in progress"
            /\ returns[j].sends >= 1

\* the repeat call met the key of the failed call and sent nothing
C33_Witness ==
    \E i, j \in 1..Len(returns) :
        /\ RetryAfterChannelFix(i, j)
        /\ returns[j].held /\ returns[j].sends = 0 /\ returns[j].nlogs1 = 0
        /\ returns[j].at > returns[i].at

\* ------------------------------------------------------------ publish request
\* publish requests that went through the handler's quota check
QuotaCheckedRequests ==
    Cardinality({ k \in 1..Len(returns) : /\ returns[k].op = "publish_draft_handler"
                                          /\ returns[k].err # "draft not found" })
    + Cardinality({ p \in Procs : call[p].pc = "h_acquire" })

\* C34: a publish accepted by publish_draft_handler leads to a delivery attempt when
\* the worker runs the task: the task does not end with an error and nothing sent, and
\* the request has used one unit of the publishes quota, not two
C34_RequestDelivered ==
    /\ \A k \in 1..Len(returns) :
          returns[k].op = "publish_draft_task" =>
              /\ returns[k].kind # "raise"
              /\ sendCalls[returns[k].draft] >= 1
    /\ quota.value <= QuotaCheckedRequests

\* the worker's task of an accepted request has ended without a send_post call, the
\* draft's key is held and no log exists for the draft
C34_Witness ==
    \E k \in 1..Len(returns) :
        /\ returns[k].op = "publish_draft_task" /\ returns[k].kind = "raise"
        /\ sendCalls[returns[k].draft] = 0
        /\ IdemHeld(returns[k].draft) /\ LogsOfDraft(returns[k].draft) = {}
        /\ returns[k].held

\* ------------------------------------------------------------ one delivery per draft
\* messages the channel accepted for draft d, from either operation
SentOfDraft(d) == { k \in 1..Len(sent) : sent[k].draft = d }

\* C35: across publish_draft and publish_due calls every draft is sent to the channel
\* at most once, and no call that found its draft published leaves it failed.
C35_SentOnce ==
    /\ \A d \in Drafts : Cardinality(SentOfDraft(d)) <= 1
    /\ \A i \in 1..Len(returns) :
          (returns[i].draft \in Drafts /\ returns[i].st0 = "published") =>
              returns[i].st1 # "failed"

\* publish_due published the draft and a later publish_draft sent it again
C35_Witness ==
    \E d \in Drafts, j, k \in 1..Len(sent) :
        /\ j < k /\ sent[j].draft = d /\ sent[k].draft = d
        /\ sent[j].op = "publish_due" /\ sent[k].op = "publish_draft"

\* a publish_draft call found the draft published and left it failed
C35_WitnessFailed ==
    \E i \in 1..Len(returns) :
        /\ returns[i].op = "publish_draft" /\ returns[i].draft \in Drafts
        /\ returns[i].st0 = "published" /\ returns[i].st1 = "failed"

\* ------------------------------------------------------------ outcome of a delivery
\* the log returned by call i was stored before the call began
ReturnedStoredLog(i) == returns[i].kind = "log" /\ returns[i].log <= returns[i].nlogs0

\* C36: a publish_draft call in which send_post succeeded returns a log with status
\* published and the message id of that send, and never a log that was stored for
\* the draft before the call.
C36_DeliveryOutcome ==
    \A i \in 1..Len(returns) : Delivered(i) =>
        /\ returns[i].kind = "log"
        /\ returns[i].status = "published"
        /\ returns[i].msg = returns[i].sent_msg
        /\ ~ReturnedStoredLog(i)

\* a call delivered the draft after its key had expired and answered with the failed
\* log an earlier call had stored, which carries no message id
C36_Witness ==
    \E i \in 1..Len(returns) :
        /\ Delivered(i) /\ ReturnedStoredLog(i)
        /\ returns[i].status = "failed" /\ returns[i].msg # returns[i].sent_msg
        /\ logs[returns[i].log].error_code # ""

\* ------------------------------------------------------------ admin publish route
\* C37: requests to the admin publish route for one draft, each served by its own
\* PublicationService with the default idempotency store, send the draft to the
\* channel once in total: no two of them have both had send_post accept the post.
C37_OncePerDraft ==
    \A i, j \in 1..Len(returns) :
        (i # j /\ returns[i].draft = returns[j].draft) => ~(Delivered(i) /\ Delivered(j))

\* the second request began when the log of the first was stored, and delivered again
C37_Witness ==
    \E i, j \in 1..Len(returns) :
        /\ i < j /\ returns[i].draft = returns[j].draft
        /\ Delivered(i) /\ Delivered(j)
        /\ returns[j].haslog /\ returns[j].st0 = "published" /\ ~returns[j].held

\* ------------------------------------------------------------ ticks in one window
\* messages the channel accepted from publish_due for slot occurrence s
SentInSlot(s) == { k \in 1..Len(sent) : sent[k].op = "publish_due" /\ sent[k].slot = s }

\* C38: with per_day_limit >= 2 and several ready drafts, the ticks inside one slot's
\* window publish at most one draft for that slot occurrence.
C38_OnePerSlot ==
    \A s \in Instants : Cardinality(SentInSlot(s)) <= 1

\* a tick two minutes after the slot published the next ready draft for the same slot
C38_Witness ==
    \E i, j \in DueCalls :
        /\ returns[i].at < returns[j].at /\ returns[i].slot = returns[j].slot
        /\ returns[j].at <= returns[j].slot + SCHEDULE_WINDOW_MINUTES * 60
        /\ returns[i].sends = 1 /\ returns[j].sends = 1
        /\ returns[i].status = "published" /\ returns[j].status = "published"
        /\ returns[i].draft # returns[j].draft
        /\ schedule.per_day_limit >= 2

\* ------------------------------------------------------------ scheduler beat
\* every slot of the list has been returned by the slot resolution of some tick
AllSlotsResolved ==
    \A i \in 1..Len(due.slots) : SlotOccurrence(due.slots[i]) \in due.seen

\* C39: with a tick every 120 seconds and the 5-minute window, every configured slot,
\* also one in the last minutes of the local day, is eventually returned by the slot
\* resolution of some tick.
C39_EverySlotDue == <>AllSlotsResolved

\* a whole day of ticks has passed and no tick resolved the slot at 23:59
C39_Witness ==
    /\ due.done
    /\ due.slots = << <<23, 59>> >>
    /\ SlotOccurrence(<<23, 59>>) \notin due.seen

\* the slot at 23:58 is resolved by a tick whatever the phase of the beat
C39_Slot2358 ==
    ( /\ due.done
      /\ \E i \in 1..Len(due.slots) : due.slots[i] = <<23, 58>>
      /\ \A j \in 1..Len(due.slots) : due.slots[j] # <<23, 59>> )
        => SlotOccurrence(<<23, 58>>) \in due.seen

\* ------------------------------------------------------------ items left behind
\* the messages a step puts on the task queue
NewMessages == (Len(enqueued) + 1)..Len(enqueued')

====
